---- MODULE Spec2Model ----
(***************************************************************************)
(* State-machine model of src-tauri/src/lib.rs: the host-key trust         *)
(* workflow (check_server_key, trust_host_key, reject_host_key), the       *)
(* connect pipeline (connect_ssh, connect, open_pty_shell), disconnect,    *)
(* and the servers file with its secret migration.                         *)
(***************************************************************************)
EXTENDS Integers, Sequences, FiniteSets, TLC

\* ------------------------------------------------------------- bounds
\* Number of connect calls that can be in flight at the same time.
NumTasks == 2
\* Total number of connect calls in one behaviour.
MaxConnects == 3
\* Largest number of records in the servers file.
MaxServers == 2

Tasks == 1..NumTasks

\* ------------------------------------------------------------- inputs
\* Endpoints a ServerConnection can name (host, port).
Endpoints ==
    { [host |-> "h1", port |-> 22], [host |-> "h1", port |-> 23] }

ServerIds == {"s1", "s2"}

\* AuthMethod
SecretRef(secret_id, kind) ==
    [type |-> "SecretRef", secret_id |-> secret_id, kind |-> kind]

Password(password) == [type |-> "Password", password |-> password]

Key(private_key) == [type |-> "Key", private_key |-> private_key]

\* ServerConnection values connect is called with (id, host, port, auth).
Servers ==
    { [id |-> "s1", host |-> "h1", port |-> 22,
       auth |-> SecretRef("vault-1", "Password")],
      [id |-> "s2", host |-> "h1", port |-> 23,
       auth |-> SecretRef("vault-1", "Password")] }

\* Public keys a remote can present: name(), fingerprint(), public_key_base64().
KeyA == [key_type |-> "ssh-ed25519", fingerprint |-> "AA:BB", public_key_base64 |-> "pkA"]
KeyB == [key_type |-> "ssh-ed25519", fingerprint |-> "CC:DD", public_key_base64 |-> "pkB"]
KeyC == [key_type |-> "ssh-rsa", fingerprint |-> "AA:BB", public_key_base64 |-> "pkC"]
Keys == {KeyA, KeyB, KeyC}

OneServer ==
    { [id |-> "s1", host |-> "h1", port |-> 22,
       auth |-> SecretRef("vault-1", "Password")] }

\* One server with every shape of auth a caller can pass to connect.
AnyAuthServer ==
    { [id |-> "s1", host |-> "h1", port |-> 22, auth |-> a] :
        a \in { SecretRef("vault-1", "Password"), SecretRef("vault-1", "PrivateKey"),
                Password("pw1"), Key("pk1") } }

NoAuth == [type |-> ""]

NoShell == << >>

\* Option::None for a session handle.
NoSession == << >>

\* The capacity of a shell's command queue (mpsc::channel(100) in the code)
\* and the number of send_input and resize calls made in a behaviour.
QueueCap == 2
MaxSends == 3

\* The number of shells made in the behaviours that follow a shell's command
\* queue.
MaxShells == 1

\* The number of Data messages a shell's channel delivers in a behaviour.
MaxData == 3

\* The number of commands that can be running at the same time in the
\* behaviours that follow the three AppState mutexes.
NumCalls == 3

LockCalls == 1..NumCalls

\* The keys the remote at an endpoint can present: at (h1, 22) the
\* fingerprint can change, at (h1, 23) the key type can.
KeysAt(host, port) == IF port = 22 THEN {KeyA, KeyB} ELSE {KeyA, KeyC}

NoKey == [key_type |-> "", fingerprint |-> "", public_key_base64 |-> ""]

VARIABLES
    tasks,          \* one record per in-flight connect call
    connects,       \* number of connect calls made so far
    known_hosts,    \* content of known_hosts.json: a sequence of KnownHost
    pending_host_keys, \* AppState.pending_host_keys: host_key_id -> PendingHostKey
    trustCalls,     \* trust_host_key calls between the decision send and the save
    ret,            \* what the last trust_host_key call returned
    okTrusted,      \* (host, port, key) for which trust_host_key has returned Ok
    sessions,       \* AppState.sessions: server id -> session
    sessionsLock,   \* holder of the sessions mutex across an await, or 0
    shells,         \* AppState.shells: set of PtyShell handles
    actors,         \* shell ids whose actor task is in its loop
    discCalls,      \* disconnect calls in flight
    cmd_q,          \* shell id -> the commands queued in its actor's channel
    applied,        \* shell id -> the commands its actor has applied, in order
    accepted,       \* shell id -> the commands whose send returned Ok, in order
    sendCalls,      \* send_input and resize calls waiting in cmd_tx.send
    sent,           \* number of send_input and resize calls made so far
    sendRet,        \* what the last send_input or resize call returned
    delivered,      \* shell id -> the Data messages its channel has delivered
    shell_events,   \* shell id -> the events emitted for it, in order
    channel_closed, \* shell ids whose actor has called channel.close()
    servers_json,   \* content of servers.json: a sequence of ServerConnection
    vault,          \* the OS keyring under com.ssh-thing: secret id -> secret
    srvRet,         \* what the last servers command returned
    shellsLock,     \* holder of the shells mutex, or 0
    pendingLock,    \* holder of the pending_host_keys mutex, or 0
    lockCalls       \* the running commands and the lock operation each is at

appVars == << tasks, connects, known_hosts, pending_host_keys, trustCalls, ret,
              okTrusted, sessions, sessionsLock, shells, actors, discCalls >>

serverVars == << servers_json, vault, srvRet >>

shellVars == << cmd_q, applied, accepted, sendCalls, sent, sendRet, delivered,
               shell_events, channel_closed >>

lockVars == << shellsLock, pendingLock, lockCalls >>

vars == << appVars, serverVars, shellVars, lockVars >>

\* ------------------------------------------------------------- helpers
\* format!("{}:{}", host, port)
host_key_id(host, port) == host \o ":" \o ToString(port)

\* HashMap::insert: the entry under k is replaced.
MapInsert(m, k, v) == [x \in (DOMAIN m) \cup {k} |-> IF x = k THEN v ELSE m[x]]

\* HashMap::remove
MapKeep(m, k) == m

MapRemove(m, k) == [x \in (DOMAIN m) \ {k} |-> m[x]]

EmptyMap == [x \in {} |-> 0]

\* known_hosts.iter().find(|entry| entry.host == host && entry.port == port):
\* the indices of the matching entries; find yields the first.
FindMatches(hosts, host, port) ==
    { i \in 1..Len(hosts) : hosts[i].host = host /\ hosts[i].port = port }

FindKnown(hosts, host, port) ==
    LET m == FindMatches(hosts, host, port)
    IN  hosts[CHOOSE i \in m : \A j \in m : i <= j]

\* known.fingerprint == fingerprint && known.key_type == key_type
KeyMatchesFingerprintOnly(known, key) ==
    known.fingerprint = key.fingerprint

KeyMatches(known, key) ==
    known.fingerprint = key.fingerprint /\ known.key_type = key.key_type

\* hosts.retain(|h| !(h.host == host && h.port == port))
RetainAll(hosts, host, port) == hosts

RECURSIVE Retain(_, _, _)
Retain(hosts, host, port) ==
    IF hosts = << >> THEN << >>
    ELSE LET h == Head(hosts)
             rest == Retain(Tail(hosts), host, port)
         IN  IF h.host = host /\ h.port = port THEN rest ELSE << h >> \o rest

KnownHost(host, port, p) ==
    [host |-> host, port |-> port, key_type |-> p.key_type,
     fingerprint |-> p.fingerprint, public_key_base64 |-> p.public_key_base64]

\* rx.await.unwrap_or(false): the state of the oneshot channel as a decision.
DecisionDefaultTrue(chan) == chan # "false"

Decision(chan) == chan = "true"

IdleTask ==
    [pc |-> "idle", server_id |-> "", host |-> "", port |-> 0,
     auth |-> NoAuth, key |-> NoKey, lookup |-> "", prompted |-> FALSE,
     mismatch |-> {}, chan |-> "none", trust |-> "none", shell |-> NoShell,
     emitted |-> ""]

\* A connect call once check_server_key has returned: the handler's host,
\* port and key are not used again, and a refused call has no use for its
\* server id and credential.
AfterCheck(me, lookup, trust, pc) ==
    [me EXCEPT !.host = "", !.port = 0, !.key = NoKey, !.lookup = lookup,
               !.trust = trust, !.pc = pc,
               !.server_id = IF pc = "refused" THEN "" ELSE @,
               !.auth = IF pc = "refused" THEN NoAuth ELSE @]

\* A connect call once connect_ssh has returned: the handler is gone; of a
\* call that goes on, the server id and the verdict of the handshake remain.
\* emitted is the connection state the call has emitted last.
AfterConnectSsh(me, pc, emitted) ==
    [IdleTask EXCEPT !.pc = pc,
                     !.trust = IF pc = "failed" THEN "none" ELSE me.trust,
                     !.server_id = IF pc = "failed" THEN "" ELSE me.server_id,
                     !.emitted = emitted]

\* russh::client::connect(..).await: the handshake goes on to return the
\* session only if check_server_key returned Ok(true); otherwise it returns
\* an error to connect_ssh.
HandshakeIgnoresVerdict(granted) == "auth"

Handshake(granted) == IF granted THEN "auth" ELSE "refused"

Verdict(granted) == IF granted THEN "granted" ELSE "denied"

\* Dropping a PendingHostKey drops its oneshot sender: a receiver still
\* waiting on it sees the channel closed.
DropSender(ts, s) ==
    IF ts[s].chan = "open" THEN [ts EXCEPT ![s].chan = "dropped"] ELSE ts

\* A slot of lockCalls that holds no running command.
NoLockCall == [command |-> "", at |-> 0]

\* AppState::default(), an empty known-hosts file, no command running.
InitApp ==
    /\ shellsLock = 0
    /\ pendingLock = 0
    /\ lockCalls = [p \in LockCalls |-> NoLockCall]
    /\ tasks = [t \in Tasks |-> IdleTask]
    /\ connects = 0
    /\ known_hosts = << >>
    /\ pending_host_keys = EmptyMap
    /\ trustCalls = {}
    /\ ret = "none"
    /\ okTrusted = {}
    /\ sessions = EmptyMap
    /\ sessionsLock = 0
    /\ shells = {}
    /\ actors = {}
    /\ discCalls = {}
    /\ cmd_q = EmptyMap
    /\ applied = EmptyMap
    /\ accepted = EmptyMap
    /\ sendCalls = {}
    /\ sent = 0
    /\ sendRet = "none"
    /\ delivered = EmptyMap
    /\ shell_events = EmptyMap
    /\ channel_closed = {}

\* The keyring holds one secret made by upsert_secret.
UserVault == [x \in {"vault-1"} |-> "tok"]

Init ==
    /\ InitApp
    /\ servers_json = << >>
    /\ vault = UserVault
    /\ srvRet = "none"

\* ------------------------------------------------------------- connect
\* connect -> connect_ssh: emit Connecting and start russh::client::connect.
\* The call takes the first slot that holds no running call.
Connect(t, server) ==
    /\ tasks[t].pc \in {"idle", "done", "failed"}
    /\ \A u \in Tasks : u < t => tasks[u].pc \notin {"idle", "done", "failed"}
    /\ connects < MaxConnects
    /\ connects' = connects + 1
    /\ tasks' = [tasks EXCEPT ![t] =
                    [IdleTask EXCEPT !.pc = "connecting", !.server_id = server.id,
                                     !.host = server.host, !.port = server.port,
                                     !.auth = server.auth,
                                     !.emitted = "Connecting"]]
    /\ UNCHANGED << lockVars, serverVars, shellVars, known_hosts, pending_host_keys, trustCalls, ret, okTrusted,
                    sessions, sessionsLock, shells, actors, discCalls >>

\* russh::client::connect fails before the server key is checked (DNS, TCP,
\* protocol): connect_ssh emits Error("Failed to connect: ..") and returns Err.
TransportFail(t) ==
    /\ tasks[t].pc = "connecting"
    /\ tasks' = [tasks EXCEPT ![t] = AfterConnectSsh(@, "failed", "Error")]
    /\ UNCHANGED << lockVars, serverVars, shellVars, connects, known_hosts, pending_host_keys, trustCalls, ret,
                    okTrusted, sessions, sessionsLock, shells, actors, discCalls >>

\* russh::client::connect returns the error of a refused server key:
\* connect_ssh emits Error("Failed to connect: ..") and returns Err.
HandshakeRefused(t) ==
    /\ tasks[t].pc = "refused"
    /\ tasks' = [tasks EXCEPT ![t] = AfterConnectSsh(@, "failed", "Error")]
    /\ UNCHANGED << lockVars, serverVars, shellVars, connects, known_hosts, pending_host_keys,
                    trustCalls, ret, okTrusted, sessions, sessionsLock, shells,
                    actors, discCalls >>

\* The host-key-mismatch payload.
HostKeyMismatch(host, port, key, known) ==
    [host |-> host, port |-> port, key_type |-> key.key_type,
     fingerprint |-> key.fingerprint, stored_fingerprint |-> known.fingerprint]

\* check_server_key up to the known-hosts lookup. readOk = FALSE is
\* get_app_dir or load_known_hosts failing: Error is emitted, Ok(false).
CheckServerKey(t, key, readOk) ==
    /\ tasks[t].pc = "connecting"
    /\ key \in KeysAt(tasks[t].host, tasks[t].port)
    /\ LET me == tasks[t]
       IN  tasks' = [tasks EXCEPT ![t] =
             IF ~readOk
             THEN [AfterCheck(me, "err", Verdict(FALSE), Handshake(FALSE))
                     EXCEPT !.emitted = "Error"]
             ELSE IF FindMatches(known_hosts, me.host, me.port) # {}
             THEN LET known == FindKnown(known_hosts, me.host, me.port)
                  IN  IF KeyMatches(known, key)
                      THEN AfterCheck(me, "match", Verdict(TRUE), Handshake(TRUE))
                      ELSE [AfterCheck(me, "mismatch", Verdict(FALSE), Handshake(FALSE))
                              EXCEPT !.mismatch =
                                {HostKeyMismatch(me.host, me.port, key, known)}]
             ELSE [me EXCEPT !.key = key, !.lookup = "none", !.pc = "register"]]
    /\ UNCHANGED << lockVars, serverVars, shellVars, connects, known_hosts, pending_host_keys, trustCalls, ret,
                    okTrusted, sessions, sessionsLock, shells, actors, discCalls >>

\* The PendingHostKey built by check_server_key; sender is the task that
\* holds the receiving end.
PendingHostKey(t, key) ==
    [sender |-> t, key_type |-> key.key_type, fingerprint |-> key.fingerprint,
     public_key_base64 |-> key.public_key_base64]

\* check_server_key, no stored entry: insert the PendingHostKey under
\* host_key_id (replacing, and so dropping, an entry already there), emit
\* host-key-prompt, and suspend on rx.
RegisterPendingUnderLock(t) ==
    /\ tasks[t].pc = "register"
    /\ sessionsLock = 0
    /\ sessionsLock' = t
    /\ pending_host_keys' =
          MapInsert(pending_host_keys, host_key_id(tasks[t].host, tasks[t].port),
                    PendingHostKey(t, tasks[t].key))
    /\ tasks' = [tasks EXCEPT ![t].chan = "open", ![t].prompted = TRUE,
                              ![t].key = NoKey, ![t].pc = "waiting"]
    /\ UNCHANGED << lockVars, serverVars, shellVars, connects, known_hosts, trustCalls, ret, okTrusted,
                    sessions, shells, actors, discCalls >>

RegisterPending(t) ==
    /\ tasks[t].pc = "register"
    /\ LET me == tasks[t]
           id == host_key_id(me.host, me.port)
           dropped == IF id \in DOMAIN pending_host_keys
                      THEN DropSender(tasks, pending_host_keys[id].sender)
                      ELSE tasks
       IN  /\ pending_host_keys' =
                 MapInsert(pending_host_keys, id, PendingHostKey(t, me.key))
           /\ tasks' = [dropped EXCEPT ![t].chan = "open", ![t].prompted = TRUE,
                                       ![t].key = NoKey, ![t].pc = "waiting"]
    /\ UNCHANGED << lockVars, serverVars, shellVars, connects, known_hosts, trustCalls, ret, okTrusted,
                    sessions, sessionsLock, shells, actors, discCalls >>

\* check_server_key resumes from rx.await: the decision is unwrap_or(false),
\* then whatever entry is under host_key_id is removed, and Ok(decision).
ResumeFromPrompt(t) ==
    /\ tasks[t].pc = "waiting"
    /\ tasks[t].chan # "open"
    /\ LET me == tasks[t]
           id == host_key_id(me.host, me.port)
           dropped == IF id \in DOMAIN pending_host_keys
                      THEN DropSender(tasks, pending_host_keys[id].sender)
                      ELSE tasks
       IN  /\ pending_host_keys' = MapRemove(pending_host_keys, id)
           /\ tasks' = [dropped EXCEPT ![t] =
                          AfterCheck(me, "none", Verdict(Decision(me.chan)),
                                     Handshake(Decision(me.chan)))]
    /\ UNCHANGED << lockVars, serverVars, shellVars, connects, known_hosts, trustCalls, ret, okTrusted,
                    sessions, sessionsLock, shells, actors, discCalls >>

\* ------------------------------------------------------------- decisions
InFlight(ep) == \E c \in trustCalls : c.host = ep.host /\ c.port = ep.port

\* trust_host_key, a pending entry exists: remove it under the lock and send
\* true on its channel. The known-hosts file is read and written afterwards.
\* One trust_host_key call per endpoint is in flight at a time.
TrustHostKey(ep) ==
    /\ host_key_id(ep.host, ep.port) \in DOMAIN pending_host_keys
    /\ ~InFlight(ep)
    /\ LET id == host_key_id(ep.host, ep.port)
           p == pending_host_keys[id]
       IN  /\ pending_host_keys' = MapRemove(pending_host_keys, id)
           /\ tasks' = [tasks EXCEPT ![p.sender].chan =
                          IF @ = "open" THEN "true" ELSE @]
           /\ trustCalls' = trustCalls \cup
                 {[host |-> ep.host, port |-> ep.port,
                   key_type |-> p.key_type, fingerprint |-> p.fingerprint,
                   public_key_base64 |-> p.public_key_base64,
                   pc |-> "load", hosts |-> << >>]}
    /\ UNCHANGED << lockVars, serverVars, shellVars, connects, known_hosts, ret, okTrusted, sessions,
                    sessionsLock, shells, actors, discCalls >>

\* trust_host_key: get_app_dir and load_known_hosts. readOk = FALSE is
\* either failing: Err, after the decision has been sent.
TrustHostKeyLoad(c, readOk) ==
    /\ c \in trustCalls
    /\ c.pc = "load"
    /\ IF readOk
       THEN /\ trustCalls' = (trustCalls \ {c}) \cup
                  {[c EXCEPT !.pc = "save", !.hosts = known_hosts]}
            /\ UNCHANGED ret
       ELSE /\ trustCalls' = trustCalls \ {c}
            /\ ret' = "Err: known hosts file"
    /\ UNCHANGED << lockVars, serverVars, shellVars, tasks, connects, known_hosts, pending_host_keys, okTrusted,
                    sessions, sessionsLock, shells, actors, discCalls >>

\* trust_host_key: retain, push and save_known_hosts on the list it loaded.
\* writeOk = FALSE is the clock or the save failing: Err.
TrustHostKeySave(c, writeOk) ==
    /\ c \in trustCalls
    /\ c.pc = "save"
    /\ trustCalls' = trustCalls \ {c}
    /\ IF writeOk
       THEN /\ known_hosts' =
                  Append(Retain(c.hosts, c.host, c.port),
                         KnownHost(c.host, c.port, c))
            /\ ret' = "Ok"
            /\ okTrusted' = okTrusted \cup
                  {[host |-> c.host, port |-> c.port,
                    key_type |-> c.key_type, fingerprint |-> c.fingerprint]}
       ELSE /\ ret' = "Err: known hosts file"
            /\ UNCHANGED << known_hosts, okTrusted >>
    /\ UNCHANGED << lockVars, serverVars, shellVars, tasks, connects, pending_host_keys, sessions, sessionsLock,
                    shells, actors, discCalls >>

\* trust_host_key with no entry under host_key_id: Err, nothing else.
TrustHostKeyNoPendingForgets(ep) ==
    /\ host_key_id(ep.host, ep.port) \notin DOMAIN pending_host_keys
    /\ ret' = "Err: No pending host key prompt"
    /\ known_hosts' = Retain(known_hosts, ep.host, ep.port)
    /\ UNCHANGED << lockVars, serverVars, shellVars, tasks, connects, pending_host_keys, trustCalls,
                    okTrusted, sessions, sessionsLock, shells, actors, discCalls >>

TrustHostKeyNoPending(ep) ==
    /\ host_key_id(ep.host, ep.port) \notin DOMAIN pending_host_keys
    /\ ret' = "Err: No pending host key prompt"
    /\ UNCHANGED << lockVars, serverVars, shellVars, tasks, connects, known_hosts, pending_host_keys, trustCalls,
                    okTrusted, sessions, sessionsLock, shells, actors, discCalls >>

\* reject_host_key: remove the entry if there is one and send false; Ok(()).
RejectHostKey(ep) ==
    /\ LET id == host_key_id(ep.host, ep.port)
       IN  IF id \in DOMAIN pending_host_keys
           THEN /\ pending_host_keys' = MapRemove(pending_host_keys, id)
                /\ tasks' = [tasks EXCEPT ![pending_host_keys[id].sender].chan =
                               IF @ = "open" THEN "false" ELSE @]
           ELSE UNCHANGED << pending_host_keys, tasks >>
    /\ UNCHANGED << lockVars, serverVars, shellVars, connects, known_hosts, trustCalls, ret, okTrusted, sessions,
                    sessionsLock, shells, actors, discCalls >>

\* ------------------------------------------------------------- after trust
\* What the match on auth in connect_ssh can come to: get_secret failing,
\* decode_secret_key failing, the server refusing the credential, success.
AuthOutcomes == {"ok", "secret_err", "decode_err", "auth_err"}

\* The outcomes open to a credential: get_secret(app, secret_id)? is only
\* called for a SecretRef and fails if the keyring has no such entry or
\* cannot be reached; a legacy Password or Key carries its secret inline;
\* decode_secret_key is only called for the key kinds.
AuthOutcomesFor(auth, v) ==
    { o \in AuthOutcomes :
        /\ o = "secret_err" => auth.type = "SecretRef"
        /\ o # "secret_err" =>
              (auth.type = "SecretRef" => auth.secret_id \in DOMAIN v)
        /\ o = "decode_err" =>
              \/ auth.type = "Key"
              \/ (auth.type = "SecretRef" /\ auth.kind = "PrivateKey") }

\* The connection-state event of the match on auth: Error is emitted by the
\* map_err closures and the !auth_result branches, nothing by get_secret(..)?.
AuthEvent(outcome) ==
    IF outcome = "ok" THEN "Connected"
    ELSE IF outcome = "secret_err" THEN "" ELSE "Error"

\* connect_ssh after russh::client::connect returned the session: resolve the
\* credential and authenticate with it. "ok" emits Connected and returns
\* the session.
Authenticate(t, outcome) ==
    /\ tasks[t].pc = "auth"
    /\ outcome \in AuthOutcomesFor(tasks[t].auth, vault)
    /\ tasks' = [tasks EXCEPT ![t] =
                    AfterConnectSsh(@, IF outcome = "ok" THEN "insert_session"
                                                         ELSE "failed",
                                    IF AuthEvent(outcome) = "" THEN tasks[t].emitted
                                    ELSE AuthEvent(outcome))]
    /\ UNCHANGED << lockVars, serverVars, shellVars, connects, known_hosts, pending_host_keys, trustCalls, ret,
                    okTrusted, sessions, sessionsLock, shells, actors, discCalls >>

\* The identity of what connect call t makes now: the session handle that
\* connect_ssh returned, or Uuid::new_v4() for a shell. A slot makes one
\* session and one shell per call, and every call raises connects.
NewId(t) == << t, connects >>

\* connect: sessions.insert(server.id, session) in its own critical section.
InsertSession(t) ==
    /\ tasks[t].pc = "insert_session"
    /\ sessionsLock = 0
    /\ sessions' = MapInsert(sessions, tasks[t].server_id, NewId(t))
    /\ tasks' = [tasks EXCEPT ![t].pc = "get_session"]
    /\ UNCHANGED << lockVars, serverVars, shellVars, connects, known_hosts, pending_host_keys, trustCalls, ret,
                    okTrusted, sessionsLock, shells, actors, discCalls >>

\* connect: lock sessions again and get_mut(server.id); the guard stays held
\* until connect returns.
GetSession(t) ==
    /\ tasks[t].pc = "get_session"
    /\ sessionsLock = 0
    /\ IF tasks[t].server_id \in DOMAIN sessions
       THEN /\ sessionsLock' = t
            /\ tasks' = [tasks EXCEPT ![t].pc = "open_pty"]
       ELSE /\ tasks' = [tasks EXCEPT ![t].pc = "failed"]
            /\ UNCHANGED sessionsLock
    /\ UNCHANGED << lockVars, serverVars, shellVars, connects, known_hosts, pending_host_keys, trustCalls, ret,
                    okTrusted, sessions, shells, actors, discCalls >>

\* The payload of a connection-state event that carries a shell id.
ConnectionStateEvent(server_id, shell_id, state) ==
    [event |-> "connection-state", server_id |-> server_id,
     shell_id |-> shell_id, state |-> state]

\* open_pty_shell: channel_open_session, request_pty, request_shell, emit
\* Connected with the new shell id, then
\* spawn the actor. A failed request returns Err and connect returns it.
OpenPtyShell(t, ok) ==
    /\ tasks[t].pc = "open_pty"
    /\ IF ok
       THEN /\ actors' = actors \cup {NewId(t)}
            /\ cmd_q' = MapInsert(cmd_q, NewId(t), << >>)
            /\ applied' = MapInsert(applied, NewId(t), << >>)
            /\ accepted' = MapInsert(accepted, NewId(t), << >>)
            /\ delivered' = MapInsert(delivered, NewId(t), << >>)
            /\ shell_events' = MapInsert(shell_events, NewId(t),
                  << ConnectionStateEvent(tasks[t].server_id, NewId(t), "Connected") >>)
            /\ tasks' = [tasks EXCEPT ![t].pc = "register_shell",
                                      ![t].shell = NewId(t),
                                      ![t].emitted = "Connected"]
            /\ UNCHANGED sessionsLock
       ELSE /\ tasks' = [tasks EXCEPT ![t].pc = "failed", ![t].emitted = "Connected"]
            /\ sessionsLock' = 0
            /\ UNCHANGED << actors, cmd_q, applied, accepted, delivered, shell_events >>
    /\ UNCHANGED << lockVars, serverVars, sendCalls, sent, sendRet, channel_closed, connects, known_hosts, pending_host_keys, trustCalls, ret,
                    okTrusted, sessions, shells, discCalls >>

\* connect: shells.insert(shell_id, shell); Ok(shell_id).
RegisterShell(t) ==
    /\ tasks[t].pc = "register_shell"
    /\ shells' = shells \cup
          {[id |-> tasks[t].shell, server_id |-> tasks[t].server_id,
            session |-> sessions[tasks[t].server_id]]}
    /\ sessionsLock' = 0
    /\ tasks' = [tasks EXCEPT ![t].pc = "done", ![t].shell = NoShell]
    /\ UNCHANGED << lockVars, serverVars, shellVars, connects, known_hosts, pending_host_keys, trustCalls, ret,
                    okTrusted, sessions, actors, discCalls >>

\* ------------------------------------------------------------- shell actor
\* ShellCommand; n numbers the send_input and resize calls.
ShellCommand(type, n) == [type |-> type, n |-> n]

Close == ShellCommand("Close", 0)

\* Whether a cmd_tx of shell id is alive: the one in the registry, the one in
\* the PtyShell that connect has not registered yet, or a clone held by a
\* send_input or resize call.
SendersForever(id) == TRUE

Senders(id) ==
    \/ \E s \in shells : s.id = id
    \/ \E t \in Tasks : tasks[t].shell = id
    \/ \E c \in sendCalls : c.shell_id = id

\* mpsc: send puts the command behind the queued ones, recv takes the oldest.
EnqueueFront(q, cmd) == << cmd >> \o q

Enqueue(q, cmd) == Append(q, cmd)

\* The TerminalOutput payload. arm names the place in the actor that emits
\* it: "data" for remote data, "exit" for the exit-status notice, "input"
\* for the notice of a failed write.
TerminalOutput(shell_id, output, arm) ==
    [event |-> "terminal-output", shell_id |-> shell_id, output |-> output,
     arm |-> arm]

\* The code points of a byte string of one- and two-byte UTF-8 forms; -1
\* stands where the bytes are malformed.
RECURSIVE Utf8Chars(_)
Utf8Chars(b) ==
    IF b = << >> THEN << >>
    ELSE IF b[1] < 128 THEN << b[1] >> \o Utf8Chars(Tail(b))
    ELSE IF b[1] \in 194..223 /\ Len(b) >= 2 /\ b[2] \in 128..191
    THEN << (b[1] - 192) * 64 + (b[2] - 128) >> \o Utf8Chars(Tail(Tail(b)))
    ELSE << -1 >>

\* std::str::from_utf8(data): Ok(s) when every byte belongs to a well-formed
\* character.
from_utf8_unchecked(data) ==
    [ok |-> TRUE, s |-> Utf8Chars(data)]

from_utf8(data) ==
    LET s == Utf8Chars(data)
    IN  [ok |-> \A i \in 1..Len(s) : s[i] >= 0, s |-> s]

\* The Data messages the remote can send: "h", "e-acute" in two bytes, and
\* "h" followed by a truncated two-byte form.
DataInputs == { << 104 >>, << 195, 169 >>, << 104, 195 >> }

\* The server id the actor of shell id captured when it was spawned: the one
\* of the Connected event emitted just before.
ServerIdOf(id) == shell_events[id][1].server_id

\* The actor task leaves its loop: its receiver and its channel are dropped.
\* It emits Disconnected with its server id and shell id.
LeaveLoopSilent(id, last) ==
    /\ actors' = actors \ {id}
    /\ cmd_q' = MapRemove(cmd_q, id)
    /\ applied' = MapRemove(applied, id)
    /\ accepted' = MapRemove(accepted, id)
    /\ delivered' = MapRemove(delivered, id)
    /\ shell_events' = [shell_events EXCEPT ![id] = @ \o last]

LeaveLoop(id, last) ==
    /\ actors' = actors \ {id}
    /\ cmd_q' = MapRemove(cmd_q, id)
    /\ applied' = MapRemove(applied, id)
    /\ accepted' = MapRemove(accepted, id)
    /\ delivered' = MapRemove(delivered, id)
    /\ shell_events' = [shell_events EXCEPT ![id] =
          @ \o last \o << ConnectionStateEvent(ServerIdOf(id), id, "Disconnected") >>]

\* let _ = channel_for_task.close().await
CloseChannelSkipped(id) == channel_closed' = channel_closed

CloseChannel(id) == channel_closed' = channel_closed \cup {id}

\* What the actor emits for a command it has applied: a SendInput whose
\* channel write failed is reported as terminal-output; a failed
\* window-change is written to the debug log only.
FailureNoticeForAll(id, type, wrote) ==
    IF ~wrote
    THEN << TerminalOutput(id, "Failed to send input", "input") >>
    ELSE << >>

FailureNotice(id, type, wrote) ==
    IF ~wrote /\ type = "SendInput"
    THEN << TerminalOutput(id, "Failed to send input", "input") >>
    ELSE << >>

\* The channel arm of the actor's select, a Data message: terminal-output is
\* emitted with the text if the bytes are valid UTF-8, nothing otherwise.
ActorData(id, data) ==
    /\ id \in actors
    /\ Len(delivered[id]) < MaxData
    /\ delivered' = [delivered EXCEPT ![id] = Append(@, data)]
    /\ shell_events' = [shell_events EXCEPT ![id] =
          IF from_utf8(data).ok
          THEN Append(@, TerminalOutput(id, from_utf8(data).s, "data"))
          ELSE @]
    /\ UNCHANGED << lockVars, serverVars, appVars, cmd_q, applied, accepted, sendCalls, sent,
                    sendRet, channel_closed >>

\* The channel arm of the actor's select: wait() returns None (status "eof":
\* the connection is gone), or an ExitStatus message (status "exit"), for
\* which terminal-output is emitted with the "Connection closed" notice.
ActorExit(id, status) ==
    /\ id \in actors
    /\ LeaveLoop(id, IF status = "exit"
                     THEN << TerminalOutput(id, "Connection closed", "exit") >>
                     ELSE << >>)
    /\ UNCHANGED << lockVars, serverVars, sendCalls, sent, sendRet, channel_closed, tasks, connects,
                    known_hosts,
                    pending_host_keys, trustCalls, ret, okTrusted, sessions, sessionsLock,
                    shells, discCalls >>

\* The command arm of the actor's select: recv() returns the oldest queued
\* command, or None when the queue is empty and every cmd_tx is dropped.
\* SendInput and Resize are applied to the channel, and a SendInput that the
\* channel fails to write (wrote = FALSE) emits terminal-output with a
\* notice; Close and None close the channel and leave the loop.
ActorRecv(id, wrote) ==
    /\ id \in actors
    /\ IF cmd_q[id] # << >>
       THEN IF Head(cmd_q[id]).type = "Close"
            THEN /\ CloseChannel(id)
                 /\ LeaveLoop(id, << >>)
            ELSE /\ applied' = [applied EXCEPT ![id] = Append(@, Head(cmd_q[id]))]
                 /\ cmd_q' = [cmd_q EXCEPT ![id] = Tail(@)]
                 /\ shell_events' = [shell_events EXCEPT ![id] =
                       @ \o FailureNotice(id, Head(cmd_q[id]).type, wrote)]
                 /\ UNCHANGED << actors, accepted, delivered, channel_closed >>
       ELSE /\ ~Senders(id)
            /\ CloseChannel(id)
            /\ LeaveLoop(id, << >>)
    /\ UNCHANGED << lockVars, serverVars, sendCalls, sent, sendRet, tasks, connects, known_hosts,
                    pending_host_keys, trustCalls, ret, okTrusted, sessions, sessionsLock,
                    shells, discCalls >>

\* format!("Shell with id {} not found", shell_id)
ShellNotFoundAnonymous(id) == "Shell not found"

ShellNotFound(id) == "Shell with id " \o ToString(id) \o " not found"

\* format!("Failed to send input: {}", e) and format!("Failed to resize
\* shell: {}", e), e being the SendError of a closed channel.
SendFailed(type) ==
    (IF type = "SendInput" THEN "Failed to send input: " ELSE "Failed to resize shell: ")
       \o "channel closed"

\* send_input and resize: look the shell up in the registry and clone its
\* cmd_tx; a shell that is not registered makes the call return Err at once.
SendCommand(id, type) ==
    /\ sent < MaxSends
    /\ sent' = sent + 1
    /\ IF \E s \in shells : s.id = id
       THEN /\ sendCalls' = sendCalls \cup
                  {[shell_id |-> id, cmd |-> ShellCommand(type, sent + 1)]}
            /\ UNCHANGED sendRet
       ELSE /\ sendRet' = "Err: " \o ShellNotFound(id)
            /\ UNCHANGED sendCalls
    /\ UNCHANGED << lockVars, serverVars, appVars, cmd_q, applied, accepted, delivered,
                    shell_events, channel_closed >>

\* cmd_tx.send(cmd).await of a send_input or resize call: waits for room in
\* the queue, Err when the actor has dropped its receiver; the clone is
\* dropped when the call returns.
SendDeliver(c) ==
    /\ c \in sendCalls
    /\ IF c.shell_id \in actors
       THEN /\ Len(cmd_q[c.shell_id]) < QueueCap
            /\ cmd_q' = [cmd_q EXCEPT ![c.shell_id] = Enqueue(@, c.cmd)]
            /\ accepted' = [accepted EXCEPT ![c.shell_id] = Append(@, c.cmd)]
            /\ sendRet' = "Ok"
       ELSE /\ sendRet' = "Err: " \o SendFailed(c.cmd.type)
            /\ UNCHANGED << cmd_q, accepted >>
    /\ sendCalls' = sendCalls \ {c}
    /\ UNCHANGED << lockVars, serverVars, appVars, applied, sent, delivered, shell_events,
                    channel_closed >>

\* ------------------------------------------------------------- disconnect
\* The ids of the registered shells of a server.
AllShellIds(registry, server_id) == { s.id : s \in registry }

ShellIdsOf(registry, server_id) ==
    { s.id : s \in { x \in registry : x.server_id = server_id } }

\* A disconnect call that has returned: its server id and the connection
\* state it emitted last.
ReturnedSilent(server_id, emitted) ==
    [server_id |-> server_id, pc |-> "returned", session |-> NoSession,
     shell_ids |-> {}, at_call |-> {}, timed_out |-> FALSE, emitted |-> ""]

Returned(server_id, emitted) ==
    [server_id |-> server_id, pc |-> "returned", session |-> NoSession,
     shell_ids |-> {}, at_call |-> {}, timed_out |-> FALSE, emitted |-> emitted]

\* The disconnect calls that have not returned.
Disconnecting == { d \in discCalls : d.pc # "returned" }

\* disconnect is called; it goes on to wait for the sessions mutex. at_call
\* records the shells of the server registered at this moment.
DisconnectCall(sid) ==
    /\ \A d \in Disconnecting : d.server_id # sid
    /\ discCalls' = { d \in discCalls : d.server_id # sid } \cup
          {[Returned(sid, "") EXCEPT !.pc = "start",
                                    !.at_call = ShellIdsOf(shells, sid)]}
    /\ UNCHANGED << lockVars, serverVars, shellVars, tasks, connects, known_hosts,
                    pending_host_keys, trustCalls, ret, okTrusted, sessions, sessionsLock,
                    shells, actors >>

\* disconnect: sessions.remove(server_id) in its own critical section.
DisconnectStart(d) ==
    /\ d \in discCalls
    /\ d.pc = "start"
    /\ sessionsLock = 0
    /\ sessions' = MapRemove(sessions, d.server_id)
    /\ discCalls' = (discCalls \ {d}) \cup
          {[d EXCEPT !.pc = "collect",
                     !.session = IF d.server_id \in DOMAIN sessions
                                 THEN sessions[d.server_id] ELSE NoSession]}
    /\ UNCHANGED << lockVars, serverVars, shellVars, tasks, connects, known_hosts,
                    pending_host_keys, trustCalls, ret, okTrusted, sessionsLock, shells,
                    actors >>

\* disconnect: collect the ids of the shells whose server_id matches.
DisconnectCollect(d) ==
    /\ d \in discCalls
    /\ d.pc = "collect"
    /\ discCalls' = (discCalls \ {d}) \cup
          {[d EXCEPT !.pc = "close", !.shell_ids = ShellIdsOf(shells, d.server_id)]}
    /\ UNCHANGED << lockVars, serverVars, shellVars, tasks, connects, known_hosts,
                    pending_host_keys, trustCalls, ret, okTrusted, sessions, sessionsLock,
                    shells, actors >>

\* disconnect, one iteration of the loop: shells.remove(shell_id), then send
\* Close on the removed shell's cmd_tx, waiting at most 250 ms for room in
\* the queue, and drop the cmd_tx. The send fails when the actor is gone and
\* times out when the queue stays full.
DisconnectClose(d, id) ==
    /\ d \in discCalls
    /\ d.pc = "close"
    /\ id \in d.shell_ids
    /\ shells' = { s \in shells : s.id # id }
    /\ IF (\E s \in shells : s.id = id) /\ id \in actors /\ Len(cmd_q[id]) < QueueCap
       THEN /\ cmd_q' = [cmd_q EXCEPT ![id] = Enqueue(@, Close)]
            /\ accepted' = [accepted EXCEPT ![id] = Append(@, Close)]
       ELSE UNCHANGED << cmd_q, accepted >>
    /\ discCalls' = (discCalls \ {d}) \cup
          {[d EXCEPT !.shell_ids = @ \ {id}]}
    /\ UNCHANGED << lockVars, serverVars, applied, sendCalls, sent, sendRet, channel_closed, delivered,
                    shell_events, tasks, connects, known_hosts, pending_host_keys,
                    trustCalls, ret, okTrusted, sessions, sessionsLock, actors >>

\* disconnect_ssh: the removed session, if there was one, is asked to
\* disconnect; the wait ends when the peer has answered or after 2 s.
DisconnectSsh(d, timedOut) ==
    /\ d \in discCalls
    /\ d.pc = "close"
    /\ d.shell_ids = {}
    /\ timedOut => d.session # NoSession
    /\ discCalls' = (discCalls \ {d}) \cup
          {[d EXCEPT !.pc = "emit", !.timed_out = timedOut]}
    /\ UNCHANGED << lockVars, serverVars, shellVars, tasks, connects, known_hosts,
                    pending_host_keys, trustCalls, ret, okTrusted, sessions, sessionsLock,
                    shells, actors >>

\* disconnect_ssh: emit Disconnected; disconnect returns.
DisconnectFinish(d) ==
    /\ d \in discCalls
    /\ d.pc = "emit"
    /\ discCalls' = (discCalls \ {d}) \cup {Returned(d.server_id, "Disconnected")}
    /\ UNCHANGED << lockVars, serverVars, shellVars, tasks, connects, known_hosts, pending_host_keys,
                    trustCalls, ret, okTrusted, sessions, sessionsLock, shells, actors >>

\* ------------------------------------------------------------- servers file
\* The auth values a caller or an old servers file can carry; "vault-1" is a
\* secret id handed out by upsert_secret.
AuthInputs ==
    { Password("pw1"), Password("pw2"), Key("pk1"), SecretRef("vault-1", "Password") }

\* ServerConnection, reduced to id and auth.
ServerInputs == { [id |-> id, auth |-> a] : id \in ServerIds, a \in AuthInputs }

\* Sequences over S of length at most n.
SeqUpTo(S, n) == UNION { [1..k -> S] : k \in 0..n }

\* format!("server:{}:password", server.id), format!("server:{}:private_key", ..)
SecretIdWithoutServer(id, suffix) == "server:" \o suffix

SecretId(id, suffix) == "server:" \o id \o ":" \o suffix

\* migrate_server_auth: SecretRef is left alone; a legacy secret is put into
\* the vault under the derived id and auth rewritten. putOk = FALSE is
\* put_secret failing: Err, server and vault untouched.
migrate_server_auth(v, server, putOk) ==
    IF server.auth.type = "SecretRef"
    THEN [ok |-> TRUE, server |-> server, vault |-> v]
    ELSE LET isPw == server.auth.type = "Password"
             secret_id == SecretId(server.id, IF isPw THEN "password" ELSE "private_key")
             secret == IF isPw THEN server.auth.password ELSE server.auth.private_key
             kind == IF isPw THEN "Password" ELSE "PrivateKey"
         IN  IF putOk
             THEN [ok |-> TRUE,
                   server |-> [server EXCEPT !.auth = SecretRef(secret_id, kind)],
                   vault |-> MapInsert(v, secret_id, secret)]
             ELSE [ok |-> FALSE, server |-> server, vault |-> v]

\* The migration loop of load_servers from index i on; failAt is the index
\* of the server whose put_secret fails, 0 for none.
MigrateNone(servers, i, v, failAt) ==
    [ok |-> TRUE, servers |-> servers, vault |-> v]

RECURSIVE MigrateAll(_, _, _, _)
MigrateAll(servers, i, v, failAt) ==
    IF i > Len(servers)
    THEN [ok |-> TRUE, servers |-> servers, vault |-> v]
    ELSE IF servers[i].auth.type = "SecretRef"
    THEN MigrateAll(servers, i + 1, v, failAt)
    ELSE LET r == migrate_server_auth(v, servers[i], i # failAt)
         IN  IF ~r.ok
             THEN [ok |-> FALSE, servers |-> servers, vault |-> r.vault]
             ELSE MigrateAll([servers EXCEPT ![i] = r.server], i + 1, r.vault, failAt)

\* The step of a command at which the file system or the keyring fails, if
\* any: reading the servers file, put_secret for record index of the load
\* loop, the save of load_servers, put_secret for the command's own server,
\* the final save. A command returns at its first failure.
IO ==
    { [fail |-> f, index |-> 0] : f \in {"none", "read", "save", "put", "save2"} }
        \cup { [fail |-> "migrate", index |-> i] : i \in 1..MaxServers }

\* load_servers: read, migrate every legacy record, save if any was migrated.
load_servers(file, v, io) ==
    IF io.fail = "read"
    THEN [ok |-> FALSE, servers |-> << >>, file |-> file, vault |-> v]
    ELSE LET m == MigrateAll(file, 1, v, IF io.fail = "migrate" THEN io.index ELSE 0)
             changed == \E i \in 1..Len(file) : file[i].auth.type # "SecretRef"
         IN  IF ~m.ok
             THEN [ok |-> FALSE, servers |-> << >>, file |-> file, vault |-> m.vault]
             ELSE IF changed /\ io.fail = "save"
             THEN [ok |-> FALSE, servers |-> << >>, file |-> file, vault |-> m.vault]
             ELSE [ok |-> TRUE, servers |-> m.servers,
                   file |-> IF changed THEN m.servers ELSE file, vault |-> m.vault]

\* servers.iter().position(|s| s.id == id): the first index, 0 for None.
Position(servers, id) ==
    LET m == { i \in 1..Len(servers) : servers[i].id = id }
    IN  IF m = {} THEN 0 ELSE CHOOSE i \in m : \A j \in m : i <= j

\* Vec::remove(index)
RemoveNothing(servers, index) == servers

Remove(servers, index) ==
    SubSeq(servers, 1, index - 1) \o SubSeq(servers, index + 1, Len(servers))

\* A servers file from an earlier version or this one, and the keyring.
InitServers ==
    /\ InitApp
    /\ servers_json \in SeqUpTo(ServerInputs, MaxServers)
    /\ vault \in { EmptyMap, UserVault }
    /\ srvRet = "none"

\* get_servers
GetServers(io) ==
    /\ LET r == load_servers(servers_json, vault, io)
       IN  /\ servers_json' = r.file
           /\ vault' = r.vault
           /\ srvRet' = IF r.ok THEN "Ok" ELSE "Err"
    /\ UNCHANGED << lockVars, appVars, shellVars >>

\* add_server: load, migrate the new server, push, save.
AddServer(server, io) ==
    /\ Len(servers_json) < MaxServers
    /\ LET r == load_servers(servers_json, vault, io)
           m == migrate_server_auth(r.vault, server, io.fail # "put")
       IN  IF ~r.ok
           THEN /\ servers_json' = r.file
                /\ vault' = r.vault
                /\ srvRet' = "Err"
           ELSE IF ~m.ok \/ io.fail = "save2"
           THEN /\ servers_json' = r.file
                /\ vault' = m.vault
                /\ srvRet' = "Err"
           ELSE /\ servers_json' = Append(r.servers, m.server)
                /\ vault' = m.vault
                /\ srvRet' = "Ok"
    /\ UNCHANGED << lockVars, appVars, shellVars >>

\* update_server: load, find the record by id, migrate the replacement, save.
UpdateServer(id, server, io) ==
    /\ LET r == load_servers(servers_json, vault, io)
           index == Position(r.servers, id)
           m == migrate_server_auth(r.vault, server, io.fail # "put")
       IN  IF ~r.ok \/ index = 0
           THEN /\ servers_json' = r.file
                /\ vault' = r.vault
                /\ srvRet' = "Err"
           ELSE IF ~m.ok \/ io.fail = "save2"
           THEN /\ servers_json' = r.file
                /\ vault' = m.vault
                /\ srvRet' = "Err"
           ELSE /\ servers_json' = [r.servers EXCEPT ![index] = m.server]
                /\ vault' = m.vault
                /\ srvRet' = "Ok"
    /\ UNCHANGED << lockVars, appVars, shellVars >>

\* delete_server: load, find the record by id, delete its secret ignoring
\* the result (delOk), remove the record, save.
DeleteServer(id, io, delOk) ==
    /\ LET r == load_servers(servers_json, vault, io)
           index == Position(r.servers, id)
           v == IF index # 0 /\ r.servers[index].auth.type = "SecretRef" /\ delOk
                THEN MapRemove(r.vault, r.servers[index].auth.secret_id)
                ELSE r.vault
       IN  IF ~r.ok \/ index = 0
           THEN /\ servers_json' = r.file
                /\ vault' = r.vault
                /\ srvRet' = "Err"
           ELSE IF io.fail = "save2"
           THEN /\ servers_json' = r.file
                /\ vault' = v
                /\ srvRet' = "Err"
           ELSE /\ servers_json' = Remove(r.servers, index)
                /\ vault' = v
                /\ srvRet' = "Ok"
    /\ UNCHANGED << lockVars, appVars, shellVars >>

\* ------------------------------------------------------------- specifications
\* Every command that touches AppState or the known-hosts file, for one
\* server whose user connects and disconnects in turn and answers host-key
\* prompts at any time.
Next ==
    \/ \E server \in OneServer : Connect(1, server) /\ Disconnecting = {}
    \/ \E t \in Tasks : TransportFail(t)
    \/ \E t \in Tasks : HandshakeRefused(t)
    \/ \E t \in Tasks, key \in Keys, readOk \in BOOLEAN : CheckServerKey(t, key, readOk)
    \/ \E t \in Tasks : RegisterPending(t)
    \/ \E t \in Tasks : ResumeFromPrompt(t)
    \/ \E ep \in Endpoints : TrustHostKey(ep)
    \/ \E c \in trustCalls, readOk \in BOOLEAN : TrustHostKeyLoad(c, readOk)
    \/ \E c \in trustCalls, writeOk \in BOOLEAN : TrustHostKeySave(c, writeOk)
    \/ \E ep \in Endpoints : TrustHostKeyNoPending(ep)
    \/ \E ep \in Endpoints : RejectHostKey(ep)
    \/ \E t \in Tasks, outcome \in AuthOutcomes : Authenticate(t, outcome)
    \/ \E t \in Tasks : InsertSession(t)
    \/ \E t \in Tasks : GetSession(t)
    \/ \E t \in Tasks, ok \in BOOLEAN : OpenPtyShell(t, ok)
    \/ \E t \in Tasks : RegisterShell(t)
    \/ \E id \in actors : ActorExit(id, "eof")
    \/ \E id \in actors : ActorRecv(id, TRUE)
    \/ \E server \in OneServer :
          DisconnectCall(server.id) /\ tasks[1].pc \in {"idle", "done", "failed"}
    \/ \E d \in discCalls : DisconnectStart(d)
    \/ \E d \in discCalls : DisconnectCollect(d)
    \/ \E d \in discCalls : \E id \in d.shell_ids : DisconnectClose(d, id)
    \/ \E d \in discCalls, timedOut \in BOOLEAN : DisconnectSsh(d, timedOut)
    \/ \E d \in discCalls : DisconnectFinish(d)

Spec == Init /\ [][Next]_vars

\* The host-key trust workflow: connect calls whose authentication is
\* refused, so that they end with connect_ssh, and the decisions that find a
\* pending entry.
NextTrust ==
    \/ \E t \in Tasks, server \in Servers : Connect(t, server)
    \/ \E t \in Tasks : TransportFail(t)
    \/ \E t \in Tasks : HandshakeRefused(t)
    \/ \E t \in Tasks, key \in Keys, readOk \in BOOLEAN : CheckServerKey(t, key, readOk)
    \/ \E t \in Tasks : RegisterPending(t)
    \/ \E t \in Tasks : ResumeFromPrompt(t)
    \/ \E ep \in Endpoints : TrustHostKey(ep)
    \/ \E c \in trustCalls, readOk \in BOOLEAN : TrustHostKeyLoad(c, readOk)
    \/ \E c \in trustCalls, writeOk \in BOOLEAN : TrustHostKeySave(c, writeOk)
    \/ \E ep \in Endpoints : RejectHostKey(ep)
    \/ \E t \in Tasks : Authenticate(t, "auth_err")

SpecTrust == Init /\ [][NextTrust]_vars

\* Concurrent connect calls from the handshake to the registered shell, with
\* a known-hosts file that can be read and written.
NextConnect ==
    \/ \E t \in Tasks, server \in OneServer : Connect(t, server)
    \/ \E t \in Tasks : TransportFail(t)
    \/ \E t \in Tasks : HandshakeRefused(t)
    \/ \E t \in Tasks, key \in Keys : CheckServerKey(t, key, TRUE)
    \/ \E t \in Tasks : RegisterPending(t)
    \/ \E t \in Tasks : ResumeFromPrompt(t)
    \/ \E ep \in Endpoints : TrustHostKey(ep)
    \/ \E c \in trustCalls : TrustHostKeyLoad(c, TRUE)
    \/ \E c \in trustCalls : TrustHostKeySave(c, TRUE)
    \/ \E ep \in Endpoints : RejectHostKey(ep)
    \/ \E t \in Tasks, outcome \in {"ok", "auth_err"} : Authenticate(t, outcome)
    \/ \E t \in Tasks : InsertSession(t)
    \/ \E t \in Tasks : GetSession(t)
    \/ \E t \in Tasks, ok \in BOOLEAN : OpenPtyShell(t, ok)
    \/ \E t \in Tasks : RegisterShell(t)

SpecConnect == Init /\ [][NextConnect]_vars

\* One connect call at a time, with every shape of auth, from Connecting to
\* the registered shell or the error.
NextAttempt ==
    \/ \E server \in AnyAuthServer : Connect(1, server)
    \/ \E t \in Tasks : TransportFail(t)
    \/ \E t \in Tasks : HandshakeRefused(t)
    \/ \E t \in Tasks, key \in Keys, readOk \in BOOLEAN : CheckServerKey(t, key, readOk)
    \/ \E t \in Tasks : RegisterPending(t)
    \/ \E t \in Tasks : ResumeFromPrompt(t)
    \/ \E ep \in Endpoints : TrustHostKey(ep)
    \/ \E c \in trustCalls : TrustHostKeyLoad(c, TRUE)
    \/ \E c \in trustCalls : TrustHostKeySave(c, TRUE)
    \/ \E ep \in Endpoints : RejectHostKey(ep)
    \/ \E t \in Tasks, outcome \in AuthOutcomes : Authenticate(t, outcome)
    \/ \E t \in Tasks : InsertSession(t)
    \/ \E t \in Tasks : GetSession(t)
    \/ \E t \in Tasks, ok \in BOOLEAN : OpenPtyShell(t, ok)
    \/ \E t \in Tasks : RegisterShell(t)
    \/ \E id \in actors : ActorExit(id, "eof")

SpecAttempt == Init /\ [][NextAttempt]_vars

\* delete_server, with add_server to fill the file again, on a servers file
\* of legacy and vault records.
DeleteInputs ==
    { [id |-> id, auth |-> a] :
        id \in ServerIds, a \in { Password("pw1"), SecretRef("vault-1", "Password") } }

InitDelete ==
    /\ InitApp
    /\ servers_json \in SeqUpTo(DeleteInputs, MaxServers)
    /\ vault \in { EmptyMap, UserVault }
    /\ srvRet = "none"

NextDelete ==
    \/ \E id \in ServerIds, io \in IO, delOk \in BOOLEAN : DeleteServer(id, io, delOk)
    \/ \E server \in DeleteInputs : AddServer(server, [fail |-> "none", index |-> 0])

SpecDelete == InitDelete /\ [][NextDelete]_vars

\* The state at start-up after earlier runs have trusted the key of both
\* endpoints: the known-hosts file holds them, AppState is empty.
InitShells ==
    /\ tasks = [t \in Tasks |-> IdleTask]
    /\ connects = 0
    /\ known_hosts = << KnownHost("h1", 22, KeyA), KnownHost("h1", 23, KeyA) >>
    /\ pending_host_keys = EmptyMap
    /\ trustCalls = {}
    /\ ret = "none"
    /\ okTrusted = {}
    /\ sessions = EmptyMap
    /\ sessionsLock = 0
    /\ shells = {}
    /\ actors = {}
    /\ discCalls = {}
    /\ cmd_q = EmptyMap
    /\ applied = EmptyMap
    /\ accepted = EmptyMap
    /\ sendCalls = {}
    /\ sent = 0
    /\ sendRet = "none"
    /\ delivered = EmptyMap
    /\ shell_events = EmptyMap
    /\ channel_closed = {}
    /\ shellsLock = 0
    /\ pendingLock = 0
    /\ lockCalls = [p \in LockCalls |-> NoLockCall]
    /\ servers_json = << >>
    /\ vault = UserVault
    /\ srvRet = "none"

\* Connect calls, one at a time, and concurrent disconnect calls for two
\* servers whose host key is trusted and whose authentication succeeds, and
\* the shell actors.
NextShells ==
    \/ \E server \in Servers : Connect(1, server)
    \/ \E t \in Tasks : CheckServerKey(t, KeyA, TRUE)
    \/ \E t \in Tasks : Authenticate(t, "ok")
    \/ \E t \in Tasks : InsertSession(t)
    \/ \E t \in Tasks : GetSession(t)
    \/ \E t \in Tasks : OpenPtyShell(t, TRUE)
    \/ \E t \in Tasks : RegisterShell(t)
    \/ \E id \in actors : ActorRecv(id, TRUE)
    \/ \E sid \in ServerIds : DisconnectCall(sid)
    \/ \E d \in discCalls : DisconnectStart(d)
    \/ \E d \in discCalls : DisconnectCollect(d)
    \/ \E d \in discCalls : \E id \in d.shell_ids : DisconnectClose(d, id)
    \/ \E d \in discCalls, timedOut \in BOOLEAN : DisconnectSsh(d, timedOut)
    \/ \E d \in discCalls : DisconnectFinish(d)

SpecShells == InitShells /\ [][NextShells]_vars

\* The shell ids that connect calls in slot 1 make while fewer than MaxShells
\* calls have been made.
ShellIdSpace == {1} \X (1..MaxShells)

\* One server whose user connects and disconnects in turn and types at any
\* time: the shell's command queue between send_input, disconnect and the
\* actor.
NextActor ==
    \/ \E server \in OneServer :
          Connect(1, server) /\ Disconnecting = {} /\ connects < MaxShells
    \/ \E t \in Tasks : CheckServerKey(t, KeyA, TRUE)
    \/ \E t \in Tasks : Authenticate(t, "ok")
    \/ \E t \in Tasks : InsertSession(t)
    \/ \E t \in Tasks : GetSession(t)
    \/ \E t \in Tasks : OpenPtyShell(t, TRUE)
    \/ \E t \in Tasks : RegisterShell(t)
    \/ \E id \in actors : ActorExit(id, "eof")
    \/ \E id \in actors : ActorRecv(id, TRUE)
    \/ \E s \in shells : SendCommand(s.id, "SendInput")
    \/ \E c \in sendCalls : SendDeliver(c)
    \/ \E sid \in {"s1"} : DisconnectCall(sid) /\ tasks[1].pc \in {"idle", "done", "failed"}
    \/ \E d \in discCalls : DisconnectStart(d)
    \/ \E d \in discCalls : DisconnectCollect(d)
    \/ \E d \in discCalls : \E id \in d.shell_ids : DisconnectClose(d, id)
    \/ \E d \in discCalls, timedOut \in BOOLEAN : DisconnectSsh(d, timedOut)
    \/ \E d \in discCalls : DisconnectFinish(d)

SpecActor == InitShells /\ [][NextActor]_vars

\* The actor is a spawned task that tokio keeps polling, and a send that can
\* complete does: the command arm of every actor and the waiting sends are
\* weakly fair. The channel arm is not: the peer may stay silent for ever.
SpecActorLive ==
    /\ SpecActor
    /\ \A id \in ShellIdSpace : WF_vars(ActorRecv(id, TRUE))
    /\ WF_vars(\E c \in sendCalls : SendDeliver(c))

\* One server whose user connects and disconnects in turn, with a remote
\* that sends data and may exit.
NextOutput ==
    \/ \E server \in OneServer :
          Connect(1, server) /\ Disconnecting = {} /\ connects < MaxShells
    \/ \E t \in Tasks : CheckServerKey(t, KeyA, TRUE)
    \/ \E t \in Tasks : Authenticate(t, "ok")
    \/ \E t \in Tasks : InsertSession(t)
    \/ \E t \in Tasks : GetSession(t)
    \/ \E t \in Tasks : OpenPtyShell(t, TRUE)
    \/ \E t \in Tasks : RegisterShell(t)
    \/ \E id \in actors, data \in DataInputs : ActorData(id, data)
    \/ \E id \in actors, status \in {"eof", "exit"} : ActorExit(id, status)
    \/ \E id \in actors : ActorRecv(id, TRUE)
    \/ \E sid \in {"s1"} : DisconnectCall(sid) /\ tasks[1].pc \in {"idle", "done", "failed"}
    \/ \E d \in discCalls : DisconnectStart(d)
    \/ \E d \in discCalls : DisconnectCollect(d)
    \/ \E d \in discCalls : \E id \in d.shell_ids : DisconnectClose(d, id)
    \/ \E d \in discCalls, timedOut \in BOOLEAN : DisconnectSsh(d, timedOut)
    \/ \E d \in discCalls : DisconnectFinish(d)

SpecOutput == InitShells /\ [][NextOutput]_vars

\* One server whose user connects and disconnects in turn, and send_input
\* and resize calls at any time with any shell id, registered or not.
NextSend ==
    \/ \E server \in OneServer :
          Connect(1, server) /\ Disconnecting = {} /\ connects < MaxShells
    \/ \E t \in Tasks : CheckServerKey(t, KeyA, TRUE)
    \/ \E t \in Tasks : Authenticate(t, "ok")
    \/ \E t \in Tasks : InsertSession(t)
    \/ \E t \in Tasks : GetSession(t)
    \/ \E t \in Tasks : OpenPtyShell(t, TRUE)
    \/ \E t \in Tasks : RegisterShell(t)
    \/ \E id \in actors : ActorRecv(id, TRUE)
    \/ \E id \in ShellIdSpace, type \in {"SendInput", "Resize"} : SendCommand(id, type)
    \/ \E c \in sendCalls : SendDeliver(c)
    \/ \E sid \in {"s1"} : DisconnectCall(sid) /\ tasks[1].pc \in {"idle", "done", "failed"}
    \/ \E d \in discCalls : DisconnectStart(d)
    \/ \E d \in discCalls : DisconnectCollect(d)
    \/ \E d \in discCalls : \E id \in d.shell_ids : DisconnectClose(d, id)
    \/ \E d \in discCalls, timedOut \in BOOLEAN : DisconnectSsh(d, timedOut)
    \/ \E d \in discCalls : DisconnectFinish(d)

SpecSend == InitShells /\ [][NextSend]_vars

\* Connect call t is suspended in check_server_key on its decision channel.
Suspended(t) == tasks[t].pc = "waiting" /\ tasks[t].chan = "open"

\* A connect call for s1 that the user leaves at its host-key prompt, and,
\* while it is suspended, everything the user can do with s2, one call after
\* the other: connect with a prompt that is accepted or rejected, send_input
\* and resize, disconnect.
NextPrompt ==
    \/ \E server \in Servers : server.id = "s1" /\ Connect(1, server)
    \/ \E t \in Tasks \ {1}, server \in Servers :
          /\ server.id = "s2"
          /\ Suspended(1)
          /\ Disconnecting = {}
          /\ \A u \in Tasks \ {1} : tasks[u].pc \in {"idle", "done", "failed"}
          /\ connects <= MaxShells
          /\ Connect(t, server)
    \/ \E t \in Tasks : CheckServerKey(t, KeyA, TRUE)
    \/ \E t \in Tasks : RegisterPending(t)
    \/ \E t \in Tasks : ResumeFromPrompt(t)
    \/ \E t \in Tasks : HandshakeRefused(t)
    \/ \E ep \in Endpoints :
          host_key_id(ep.host, ep.port) # host_key_id(tasks[1].host, tasks[1].port) /\ TrustHostKey(ep)
    \/ \E c \in trustCalls : TrustHostKeyLoad(c, TRUE)
    \/ \E c \in trustCalls : TrustHostKeySave(c, TRUE)
    \/ \E ep \in Endpoints :
          /\ host_key_id(ep.host, ep.port) # host_key_id(tasks[1].host, tasks[1].port)
          /\ host_key_id(ep.host, ep.port) \in DOMAIN pending_host_keys
          /\ RejectHostKey(ep)
    \/ \E t \in Tasks : Authenticate(t, "ok")
    \/ \E t \in Tasks : InsertSession(t)
    \/ \E t \in Tasks : GetSession(t)
    \/ \E t \in Tasks : OpenPtyShell(t, TRUE)
    \/ \E t \in Tasks : RegisterShell(t)
    \/ \E id \in actors : ActorRecv(id, TRUE)
    \/ \E s \in shells, type \in {"SendInput", "Resize"} :
          sendCalls = {} /\ Disconnecting = {} /\ SendCommand(s.id, type)
    \/ \E c \in sendCalls : SendDeliver(c)
    \/ \E sid \in {"s2"} :
          /\ \A t \in Tasks \ {1} : tasks[t].pc \in {"idle", "done", "failed"}
          /\ sendCalls = {}
          /\ DisconnectCall(sid)
    \/ \E d \in discCalls : DisconnectStart(d)
    \/ \E d \in discCalls : DisconnectCollect(d)
    \/ \E d \in discCalls : \E id \in d.shell_ids : DisconnectClose(d, id)
    \/ \E d \in discCalls, timedOut \in BOOLEAN : DisconnectSsh(d, timedOut)
    \/ \E d \in discCalls : DisconnectFinish(d)

SpecPrompt == Init /\ [][NextPrompt]_vars

\* One server whose user connects, types, resizes and disconnects, one call
\* after the other, with a remote that may exit and a channel that may fail
\* to write: every way an actor's loop ends.
NextEnd ==
    \/ \E server \in OneServer :
          Connect(1, server) /\ Disconnecting = {} /\ connects < MaxShells
    \/ \E t \in Tasks : CheckServerKey(t, KeyA, TRUE)
    \/ \E t \in Tasks : Authenticate(t, "ok")
    \/ \E t \in Tasks : InsertSession(t)
    \/ \E t \in Tasks : GetSession(t)
    \/ \E t \in Tasks : OpenPtyShell(t, TRUE)
    \/ \E t \in Tasks : RegisterShell(t)
    \/ \E id \in actors, status \in {"eof", "exit"} : ActorExit(id, status)
    \/ \E id \in actors, wrote \in BOOLEAN : ActorRecv(id, wrote)
    \/ \E s \in shells, type \in {"SendInput", "Resize"} :
          sendCalls = {} /\ Disconnecting = {} /\ SendCommand(s.id, type)
    \/ \E c \in sendCalls : SendDeliver(c)
    \/ \E sid \in {"s1"} :
          /\ tasks[1].pc \in {"idle", "done", "failed"}
          /\ sendCalls = {}
          /\ DisconnectCall(sid)
    \/ \E d \in discCalls : DisconnectStart(d)
    \/ \E d \in discCalls : DisconnectCollect(d)
    \/ \E d \in discCalls : \E id \in d.shell_ids : DisconnectClose(d, id)
    \/ \E d \in discCalls, timedOut \in BOOLEAN : DisconnectSsh(d, timedOut)
    \/ \E d \in discCalls : DisconnectFinish(d)

SpecEnd == InitShells /\ [][NextEnd]_vars

\* The servers commands on a servers file that may hold legacy records.
NextServers ==
    \/ \E io \in IO : GetServers(io)
    \/ \E server \in ServerInputs, io \in IO : AddServer(server, io)
    \/ \E id \in ServerIds, server \in ServerInputs, io \in IO : UpdateServer(id, server, io)
    \/ \E id \in ServerIds, io \in IO, delOk \in BOOLEAN : DeleteServer(id, io, delOk)

SpecServers == InitServers /\ [][NextServers]_vars

\* ------------------------------------------------------------- properties
\* The host_key_id of the check_server_key running in connect call t.
IdOf(t) == host_key_id(tasks[t].host, tasks[t].port)

C3_NothingWithoutGrantedTrust ==
    [][/\ \A t \in Tasks :
            tasks'[t].pc \in {"auth", "insert_session", "get_session",
                              "open_pty", "register_shell", "done"}
               => tasks'[t].trust = "granted"
       /\ sessions' # sessions =>
            \E t \in Tasks : /\ tasks[t].trust = "granted"
                             /\ tasks[t].pc = "insert_session"
                             /\ sessions' = [x \in DOMAIN sessions \cup {tasks[t].server_id} |->
                                                IF x = tasks[t].server_id
                                                THEN << t, connects >> ELSE sessions[x]]
       /\ ~(actors' \subseteq actors) =>
            \E t \in Tasks : /\ tasks[t].trust = "granted"
                             /\ tasks[t].pc = "open_pty"
                             /\ actors' = actors \cup {<< t, connects >>}
       /\ ~(shells' \subseteq shells) =>
            \E t \in Tasks : /\ tasks[t].trust = "granted"
                             /\ tasks[t].pc = "register_shell"
                             /\ \A s \in shells' \ shells : s.id = tasks[t].shell
      ]_vars

\* One call has its shell registered while another was denied.
C3_Witness ==
    /\ shells # {}
    /\ actors # {}
    /\ DOMAIN sessions # {}
    /\ \E t \in Tasks : tasks[t].trust = "denied" /\ tasks[t].pc = "refused"

\* C4: once trust_host_key has returned Ok for (host, port) and a key, every
\* check_server_key that then reads the store for the same (host, port) and
\* presents the same key_type and fingerprint returns granted at once, with
\* no pending entry and no prompt.
C4_TrustedKeyGrantedWithoutPrompt ==
    [][\A t \in Tasks, key \in Keys :
        (/\ CheckServerKey(t, key, TRUE)
         /\ [host |-> tasks[t].host, port |-> tasks[t].port,
             key_type |-> key.key_type, fingerprint |-> key.fingerprint]
               \in okTrusted)
        => /\ tasks'[t].trust = "granted"
           /\ tasks'[t].pc = "auth"
           /\ ~tasks'[t].prompted
           /\ pending_host_keys' = pending_host_keys
      ]_vars

\* C5: a check_server_key that reaches the pending table while an entry for
\* its host:port is there leaves that entry and the channel of the attempt
\* that owns it as they are, and emits no prompt of its own.
C5_SecondAttemptKeepsFirstPrompt ==
    [][\A t \in Tasks :
        (RegisterPending(t) /\ IdOf(t) \in DOMAIN pending_host_keys)
        => /\ pending_host_keys'[IdOf(t)] = pending_host_keys[IdOf(t)]
           /\ tasks'[pending_host_keys[IdOf(t)].sender].chan = "open"
           /\ ~tasks'[t].prompted
      ]_vars

C7_OneEntryPerEndpoint ==
    [][/\ \A i, j \in 1..Len(known_hosts') :
            (/\ known_hosts'[i].host = known_hosts'[j].host
             /\ known_hosts'[i].port = known_hosts'[j].port) => i = j
       /\ \A ep \in Endpoints :
            TrustHostKey(ep) =>
               \E c \in trustCalls' \ trustCalls :
                  LET p == pending_host_keys[host_key_id(ep.host, ep.port)]
                  IN  /\ c.host = ep.host /\ c.port = ep.port
                      /\ c.key_type = p.key_type
                      /\ c.fingerprint = p.fingerprint
                      /\ c.public_key_base64 = p.public_key_base64
       /\ \A c \in trustCalls :
            TrustHostKeySave(c, TRUE) =>
               /\ ret' = "Ok"
               /\ \E i \in 1..Len(known_hosts') :
                     known_hosts'[i] =
                        [host |-> c.host, port |-> c.port, key_type |-> c.key_type,
                         fingerprint |-> c.fingerprint,
                         public_key_base64 |-> c.public_key_base64]
      ]_vars

\* An endpoint was trusted twice with different keys, and the store holds
\* one entry for it.
C7_Witness ==
    /\ \E a, b \in okTrusted :
          a.host = b.host /\ a.port = b.port /\ a.fingerprint # b.fingerprint
    /\ ret = "Ok"
    /\ Len(known_hosts) = 1

\* C8: the store changes only in the save of a trust_host_key call, and such
\* a call exists only by having removed a pending entry for its (host, port);
\* no step of check_server_key, reject_host_key, connect or disconnect
\* changes it, and trust_host_key without a pending entry returns the error
\* and changes nothing.
C8_StoreChangesOnlyByTrust ==
    [][/\ known_hosts' # known_hosts =>
            \E c \in trustCalls : c.pc = "save" /\ TrustHostKeySave(c, TRUE)
       /\ ~(trustCalls' \subseteq trustCalls) =>
            \/ \E ep \in Endpoints :
                  /\ host_key_id(ep.host, ep.port) \in DOMAIN pending_host_keys
                  /\ TrustHostKey(ep)
            \/ \E c \in trustCalls : TrustHostKeyLoad(c, TRUE)
       /\ \A ep \in Endpoints :
            TrustHostKeyNoPending(ep) =>
               /\ ret' = "Err: No pending host key prompt"
               /\ known_hosts' = known_hosts
       /\ ret' = "Err: No pending host key prompt" /\ ret' # ret =>
            /\ known_hosts' = known_hosts
            /\ trustCalls' = trustCalls
            /\ pending_host_keys' = pending_host_keys
      ]_vars

\* A stale decision was answered with the error while the store has an entry.
C8_Witness ==
    /\ known_hosts # << >>
    /\ ret = "Err: No pending host key prompt"

\* C9: for every server with a legacy Password or Key and every vault, a
\* successful migrate_server_auth leaves the original secret in the vault
\* under server:<id>:password or server:<id>:private_key, leaves the other
\* secrets alone, and turns auth into SecretRef with that id and the matching
\* kind; migrating the result again returns Ok and the same server and vault.
C9_MigrateStoresAndIsIdempotent ==
    \A s \in ServerInputs :
        s.auth.type # "SecretRef" =>
            LET r == migrate_server_auth(vault, s, TRUE)
                sid == IF s.auth.type = "Password"
                       THEN "server:" \o s.id \o ":password"
                       ELSE "server:" \o s.id \o ":private_key"
            IN  /\ r.ok
                /\ r.server.id = s.id
                /\ r.server.auth =
                      [type |-> "SecretRef", secret_id |-> sid,
                       kind |-> IF s.auth.type = "Password" THEN "Password"
                                                            ELSE "PrivateKey"]
                /\ sid \in DOMAIN r.vault
                /\ r.vault[sid] = IF s.auth.type = "Password" THEN s.auth.password
                                                              ELSE s.auth.private_key
                /\ DOMAIN r.vault = DOMAIN vault \cup {sid}
                /\ \A k \in DOMAIN vault \ {sid} : r.vault[k] = vault[k]
                /\ \A putOk \in BOOLEAN :
                      migrate_server_auth(r.vault, r.server, putOk) =
                         [ok |-> TRUE, server |-> r.server, vault |-> r.vault]

\* A legacy password record of the file was migrated: the file holds the
\* reference and the vault the password.
C9_Witness ==
    /\ srvRet = "Ok"
    /\ \E i \in 1..Len(servers_json) :
          /\ servers_json[i].id = "s2"
          /\ servers_json[i].auth.type = "SecretRef"
          /\ servers_json[i].auth.secret_id = "server:s2:password"
          /\ servers_json[i].auth.kind = "Password"
    /\ "server:s2:password" \in DOMAIN vault
    /\ vault["server:s2:password"] = "pw2"

\* C10: whenever a servers command changes the servers file, every record of
\* the new content has auth = SecretRef.
C10_SavedRecordsAreSecretRef ==
    [][servers_json' # servers_json =>
          \A i \in 1..Len(servers_json') : servers_json'[i].auth.type = "SecretRef"
      ]_vars

\* A file that held a legacy key record was rewritten and grew by a record.
C10_Witness ==
    /\ srvRet = "Ok"
    /\ Len(servers_json) = MaxServers
    /\ \E i \in 1..Len(servers_json) :
          servers_json[i].auth.type = "SecretRef"
             /\ servers_json[i].auth.secret_id = "server:s1:private_key"
    /\ \A i \in 1..Len(servers_json) : servers_json[i].auth.type = "SecretRef"

\* C11: a connect call is never about to authenticate with a legacy inline
\* secret: when it reaches the authentication, its auth is a SecretRef whose
\* secret is in the vault.
C11_MigratedBeforeAuthentication ==
    \A t \in Tasks :
        tasks[t].pc = "auth" =>
            /\ tasks[t].auth.type = "SecretRef"
            /\ tasks[t].auth.secret_id \in DOMAIN vault

\* C14: the step that starts a connect call emits Connecting for its server
\* id; the step that lets connect_ssh return the session emits Connected; and
\* every step in which connect_ssh returns an error (transport, host-key
\* trust, credential resolution, key decoding, authentication) emits Error
\* for that server id.
C14_ErrorEmittedOnEveryFailure ==
    [][\A t \in Tasks :
        /\ (tasks[t].pc \in {"idle", "done", "failed"} /\ tasks'[t].pc = "connecting")
           => tasks'[t].emitted = "Connecting"
        /\ (tasks[t].pc = "auth" /\ tasks'[t].pc = "insert_session")
           => tasks'[t].emitted = "Connected"
        /\ (tasks[t].pc \in {"connecting", "refused", "auth"} /\ tasks'[t].pc = "failed")
           => tasks'[t].emitted = "Error"
      ]_vars

\* C15: with one connect call at a time, the step in which a connect call
\* returns an error leaves no session entry and no shell made by that call
\* in the registries.
C15_NoPartialStateOnError ==
    [][\A t \in Tasks :
        (tasks[t].pc \notin {"idle", "done", "failed"} /\ tasks'[t].pc = "failed")
        => /\ \A sid \in DOMAIN sessions' : sessions'[sid] # << t, connects >>
           /\ \A s \in shells' : s.id # << t, connects >>
      ]_vars

\* C12: a delete_server whose load and save succeed and that finds a record
\* with the given id, a SecretRef, returns Ok and removes exactly that record
\* whether or not the vault deletion succeeds; when the deletion succeeds the
\* record's secret is no longer in the vault.
C12_DeleteIgnoresVaultFailure ==
    [][\A id \in ServerIds, delOk \in BOOLEAN :
        LET index == Position(servers_json, id)
        IN  (/\ index # 0
             /\ servers_json[index].auth.type = "SecretRef"
             /\ DeleteServer(id, [fail |-> "none", index |-> 0], delOk))
            => /\ srvRet' = "Ok"
               /\ Len(servers_json') = Len(servers_json) - 1
               /\ \A i \in 1..Len(servers_json') :
                      servers_json'[i].id =
                          servers_json[IF i < index THEN i ELSE i + 1].id
               /\ delOk => servers_json[index].auth.secret_id \notin DOMAIN vault'
      ]_vars

\* Both records were deleted with Ok, and the secret of one of them is still
\* in the vault: its vault deletion failed.
C12_Witness ==
    /\ srvRet = "Ok"
    /\ servers_json = << >>
    /\ SecretId("s1", "password") \in DOMAIN vault

\* C13: the sessions.insert of a connect call leaves alone an entry that is
\* already registered under its server id and whose shell actor is running.
C13_InsertKeepsLiveSession ==
    [][\A t \in Tasks :
        LET sid == tasks[t].server_id
        IN  (/\ InsertSession(t)
             /\ sid \in DOMAIN sessions
             /\ \E s \in shells : s.session = sessions[sid] /\ s.id \in actors)
            => sessions'[sid] = sessions[sid]
      ]_vars

\* Shell id has a running actor and disconnect has taken it out of the
\* registry (nothing else removes a registered shell, and a shell that
\* connect has not registered yet is still in connect's hands).
Removed(id) ==
    /\ id \in actors
    /\ ~ \E s \in shells : s.id = id
    /\ ~ \E t \in Tasks : tasks[t].shell = id

\* C19: once disconnect has taken a shell out of the registry, its actor
\* eventually leaves its loop, also when the Close was not queued because the
\* queue was full.
C19_ActorsLeaveAfterDisconnect ==
    \A id \in ShellIdSpace : Removed(id) ~> (id \notin actors)

\* Disconnect has removed a shell whose queue was full, so that no Close is
\* queued, and a send_input call still waits for room.
C19_Witness ==
    \E id \in actors :
        /\ Removed(id)
        /\ Len(cmd_q[id]) = QueueCap
        /\ \A i \in 1..Len(cmd_q[id]) : cmd_q[id][i] # Close
        /\ \E c \in sendCalls : c.shell_id = id

\* C20: for every running actor, the commands it has applied followed by the
\* commands still queued are the accepted commands in the order their sends
\* returned: nothing is applied twice or out of order, and a Close is reached
\* only after every command accepted before it has been applied.
C20_AppliedInSendOrder ==
    \A id \in actors : accepted[id] = applied[id] \o cmd_q[id]

\* An actor has applied a command, and a Close is queued behind another one.
C20_Witness ==
    \E id \in actors :
        /\ Len(applied[id]) >= 1
        /\ Len(cmd_q[id]) = 2
        /\ cmd_q[id][1].type = "SendInput"
        /\ cmd_q[id][2] = Close

\* C16: the sessions.remove of a disconnect call leaves no entry under its
\* server id, and the step in which the call returns emits Disconnected for
\* that server id with the session it removed, if there was one, still out
\* of the registry, whether or not the wait for the peer timed out.
C16_DisconnectRemovesAndEmits ==
    [][\A d \in discCalls :
        /\ DisconnectStart(d) => d.server_id \notin DOMAIN sessions'
        /\ DisconnectFinish(d)
           => /\ \E r \in discCalls' : /\ r.server_id = d.server_id
                                       /\ r.pc = "returned"
                                       /\ r.emitted = "Disconnected"
              /\ \A sid \in DOMAIN sessions' :
                     d.session = NoSession \/ sessions'[sid] # d.session
      ]_vars

\* disconnect has returned for s1 while s2 stays connected.
C16_Witness ==
    /\ \E r \in discCalls : /\ r.server_id = "s1"
                            /\ r.pc = "returned"
                            /\ r.emitted = "Disconnected"
    /\ "s1" \notin DOMAIN sessions
    /\ "s2" \in DOMAIN sessions

\* C17: a disconnect call that waits for the sessions mutex never finds it
\* held by a connect call for another server that waits for the peer's
\* answer to its channel, PTY or shell request.
C17_DisconnectNeverWaitsForConnect ==
    \A d \in discCalls :
        d.pc = "start" =>
            ~ \E t \in Tasks : /\ sessionsLock = t
                               /\ tasks[t].pc = "open_pty"
                               /\ tasks[t].server_id # d.server_id

\* C18: when a disconnect call returns, none of the shells of its server that
\* were registered when it was called is registered, and a shell leaves the
\* registry only in the loop of a disconnect call for the shell's server.
C18_DisconnectClosesItsShellsOnly ==
    [][/\ \A d \in discCalls :
            DisconnectFinish(d)
            => \A id \in d.at_call : ~ \E s \in shells' : s.id = id
       /\ \A s \in shells \ shells' :
            \E d \in discCalls : d.pc = "close" /\ d.server_id = s.server_id
      ]_vars

\* disconnect has returned for s1 and removed a shell whose actor still
\* runs, and a shell of s2 is registered.
C18_Witness ==
    /\ \E r \in discCalls : r.server_id = "s1" /\ r.pc = "returned"
    /\ Disconnecting = {}
    /\ \E id \in actors : Removed(id)
    /\ \E s \in shells : s.server_id = "s2"
    /\ ~ \E s \in shells : s.server_id = "s1"

\* C21: a send_input whose command is placed behind a queued Close of its
\* shell does not return Ok: the actor leaves its loop at the Close and never
\* writes that input.
C21_NoOkBehindClose ==
    [][\A c \in sendCalls :
        (/\ c.shell_id \in actors
         /\ \E i \in 1..Len(cmd_q[c.shell_id]) : cmd_q[c.shell_id][i] = Close
         /\ SendDeliver(c))
        => sendRet' # "Ok"
      ]_vars

\* The terminal-output events of remote data among the events of a shell.
DataEvents(events) ==
    SelectSeq(events, LAMBDA e : e.event = "terminal-output" /\ e.arm = "data")

\* The texts of the well-formed messages among msgs, in their order.
RECURSIVE TextsOf(_)
TextsOf(msgs) ==
    IF msgs = << >> THEN << >>
    ELSE (IF -1 \in { Utf8Chars(Head(msgs))[i] : i \in 1..Len(Utf8Chars(Head(msgs))) }
          THEN << >> ELSE << Utf8Chars(Head(msgs)) >>)
         \o TextsOf(Tail(msgs))

\* C22: for every running actor, the terminal-output events of remote data
\* emitted for its shell carry its own shell id and are, in order, the texts
\* of the well-formed Data messages its channel has delivered, one event per
\* message; a Data message leaves the actor in its loop, malformed or not.
C22_OutputFollowsData ==
    [][\A id \in actors' :
        /\ \A i \in 1..Len(shell_events'[id]) :
              shell_events'[id][i].shell_id = id
        /\ [i \in 1..Len(DataEvents(shell_events'[id])) |->
              DataEvents(shell_events'[id])[i].output] = TextsOf(delivered'[id])
        /\ \A data \in DataInputs : ActorData(id, data) => id \in actors'
      ]_vars

\* A malformed message was delivered between two well-formed ones, and both
\* of these were emitted.
C22_Witness ==
    \E id \in actors :
        /\ Len(delivered[id]) = 3
        /\ -1 \in { Utf8Chars(delivered[id][2])[i] :
                     i \in 1..Len(Utf8Chars(delivered[id][2])) }
        /\ Len(DataEvents(shell_events[id])) = 2

\* C23: a send_input or resize call with a shell id that is not in the shell
\* registry returns "Shell with id <id> not found" in the step of the lookup:
\* no call is left waiting, no command is queued on any shell, and the
\* session registry, the shell registry and the running actors with their
\* queues, applied commands and events stay as they were.
C23_UnknownShellIsRefused ==
    [][\A id \in ShellIdSpace, type \in {"SendInput", "Resize"} :
        (/\ ~ \E s \in shells : s.id = id
         /\ SendCommand(id, type))
        => /\ sendRet' = "Err: Shell with id " \o ToString(id) \o " not found"
           /\ sendCalls' = sendCalls
           /\ cmd_q' = cmd_q
           /\ accepted' = accepted
           /\ applied' = applied
           /\ sessions' = sessions
           /\ shells' = shells
           /\ actors' = actors
           /\ shell_events' = shell_events
      ]_vars

\* The call that returned last was refused for a shell that disconnect has
\* removed and whose actor still runs with a command in its queue.
C23_Witness ==
    \E id \in actors :
        /\ Removed(id)
        /\ cmd_q[id] # << >>
        /\ sendRet = "Err: Shell with id " \o ToString(id) \o " not found"

\* C24: when check_server_key returns trust granted after a prompt, the
\* known-hosts file already holds an entry for its host and port.
C24_StoredBeforeGranted ==
    [][\A t \in Tasks :
        (/\ tasks[t].pc = "waiting"
         /\ tasks[t].chan = "true"
         /\ ResumeFromPrompt(t))
        => FindMatches(known_hosts, tasks[t].host, tasks[t].port) # {}
      ]_vars

\* C25: every entry of the pending host-key table belongs to a connect call
\* that is suspended in check_server_key for that host:port with its decision
\* channel open; a call whose decision was delivered or whose sender was
\* dropped owns no entry, so trust_host_key and reject_host_key only ever
\* find the entry of a waiting call.
C25_PendingOnlyWhileSuspended ==
    \A id \in DOMAIN pending_host_keys :
        LET t == pending_host_keys[id].sender
        IN  /\ tasks[t].pc = "waiting"
            /\ tasks[t].chan = "open"
            /\ IdOf(t) = id

\* One call has been released by a decision and has not resumed yet, and
\* another call for the same endpoint has registered its own entry since.
C25_Witness ==
    \E t, u \in Tasks :
        /\ t # u
        /\ tasks[t].pc = "waiting"
        /\ tasks[t].chan \in {"true", "false"}
        /\ IdOf(u) = IdOf(t)
        /\ IdOf(u) \in DOMAIN pending_host_keys
        /\ pending_host_keys[IdOf(u)].sender = u

\* C26: no registry mutex is held across session or channel I/O: a connect
\* call that waits in open_pty_shell for the peer's answer to its channel,
\* PTY or shell request does not hold the sessions mutex.
C26_NoLockAcrossIO ==
    \A t \in Tasks : tasks[t].pc = "open_pty" => sessionsLock # t

\* C27: a connect call suspended on its host-key prompt does not hold the
\* sessions mutex, and nothing that another call waits for is withheld by
\* it: unless a call that is opening its shell holds the sessions mutex, a
\* call for another server at sessions.insert or at the second sessions lock
\* and a disconnect call at sessions.remove can take their step, and so can
\* an accept or a reject of a pending entry of another endpoint and a
\* send_input or resize whose queue has room.
C27_PromptHoldsNoLock ==
    \A t \in Tasks :
        Suspended(t) =>
            /\ sessionsLock # t
            /\ sessionsLock # 0 =>
                  tasks[sessionsLock].pc \in {"open_pty", "register_shell"}
            /\ \A u \in Tasks \ {t} :
                  /\ (tasks[u].pc = "insert_session" /\ sessionsLock = 0)
                     => ENABLED InsertSession(u)
                  /\ (tasks[u].pc = "get_session" /\ sessionsLock = 0)
                     => ENABLED GetSession(u)
                  /\ tasks[u].pc = "register" => ENABLED RegisterPending(u)
            /\ \A d \in discCalls :
                  (d.pc = "start" /\ sessionsLock = 0) => ENABLED DisconnectStart(d)
            /\ \A ep \in Endpoints :
                  (/\ host_key_id(ep.host, ep.port) # IdOf(t)
                   /\ host_key_id(ep.host, ep.port) \in DOMAIN pending_host_keys
                   /\ ~InFlight(ep))
                  => ENABLED TrustHostKey(ep) /\ ENABLED RejectHostKey(ep)
            /\ \A c \in sendCalls :
                  (c.shell_id \in actors => Len(cmd_q[c.shell_id]) < QueueCap)
                  => ENABLED SendDeliver(c)

\* While the call for s1 is still suspended, a prompt for s2 was accepted
\* and stored, a shell of s2 was used and s2 was disconnected.
C27_Witness ==
    /\ Suspended(1)
    /\ ret = "Ok"
    /\ sendRet = "Ok"
    /\ \E r \in discCalls : /\ r.server_id = "s2"
                            /\ r.pc = "returned"
                            /\ r.emitted = "Disconnected"
    /\ \E t \in Tasks \ {1} : tasks[t].pc = "done"

\* Event e is the connection state `state` scoped to server s1 and shell id.
IsState(e, id, state) ==
    /\ e.event = "connection-state"
    /\ e.server_id = "s1"
    /\ e.shell_id = id
    /\ e.state = state

\* The positions of the Disconnected events among the events of shell id.
Disconnects(events, id) ==
    { i \in 1..Len(events) : IsState(events[i], id, "Disconnected") }

\* C28: the events of a shell begin with its Connected; while its actor is
\* in its loop no Disconnected has been emitted for it; once the actor has
\* left its loop, whatever ended it, exactly one Disconnected scoped to its
\* server and shell has been emitted, as the last event of the shell, and no
\* event of that shell follows.
C28_DisconnectedOnceAndLast ==
    [][\A id \in DOMAIN shell_events' :
        LET ev == shell_events'[id]
        IN  /\ IsState(ev[1], id, "Connected")
            /\ id \in actors' => Disconnects(ev, id) = {}
            /\ id \notin actors' => Disconnects(ev, id) = {Len(ev)}
            /\ (id \in DOMAIN shell_events /\ id \notin actors)
               => ev = shell_events[id]
      ]_vars

\* An actor that emitted a terminal-output notice has left its loop, and
\* Disconnected is the last event of its shell.
C28_Witness ==
    \E id \in DOMAIN shell_events :
        /\ id \notin actors
        /\ \E i \in 1..Len(shell_events[id]) :
              shell_events[id][i].event = "terminal-output"
        /\ IsState(shell_events[id][Len(shell_events[id])], id, "Disconnected")

\* C29: a registered shell whose actor has left its loop is eventually taken
\* out of the shell registry.
C29_ExitedShellLeavesRegistry ==
    \A id \in ShellIdSpace :
        (id \notin actors /\ \E s \in shells : s.id = id)
            ~> (~ \E s \in shells : s.id = id)

\* C30: once the actor of a registered shell has left its loop on EOF or on
\* an exit-status message, the session registry no longer holds the session
\* of the shell's server.
C30_PeerClosureRemovesSession ==
    \A s \in shells :
        s.id \notin actors =>
            ~ (/\ s.server_id \in DOMAIN sessions
               /\ sessions[s.server_id] = s.session)

\* Every way an actor's loop ends, with remote output arriving first: one
\* server, one Data message per shell before the user types, commands whose
\* channel writes succeed, and disconnect.
NextLoop ==
    \/ \E server \in OneServer :
          Connect(1, server) /\ Disconnecting = {} /\ connects < MaxShells
    \/ \E t \in Tasks : CheckServerKey(t, KeyA, TRUE)
    \/ \E t \in Tasks : Authenticate(t, "ok")
    \/ \E t \in Tasks : InsertSession(t)
    \/ \E t \in Tasks : GetSession(t)
    \/ \E t \in Tasks : OpenPtyShell(t, TRUE)
    \/ \E t \in Tasks : RegisterShell(t)
    \/ \E id \in actors :
          /\ delivered[id] = << >> /\ sent = 0 /\ Disconnecting = {}
          /\ ActorData(id, << 104 >>)
    \/ \E id \in actors, status \in {"eof", "exit"} : ActorExit(id, status)
    \/ \E id \in actors : ActorRecv(id, TRUE)
    \/ \E s \in shells, type \in {"SendInput", "Resize"} :
          sendCalls = {} /\ Disconnecting = {} /\ SendCommand(s.id, type)
    \/ \E c \in sendCalls : SendDeliver(c)
    \/ \E sid \in {"s1"} :
          /\ tasks[1].pc \in {"idle", "done", "failed"}
          /\ sendCalls = {}
          /\ DisconnectCall(sid)
    \/ \E d \in discCalls : DisconnectStart(d)
    \/ \E d \in discCalls : DisconnectCollect(d)
    \/ \E d \in discCalls : \E id \in d.shell_ids : DisconnectClose(d, id)
    \/ \E d \in discCalls, timedOut \in BOOLEAN : DisconnectSsh(d, timedOut)
    \/ \E d \in discCalls : DisconnectFinish(d)

SpecLoop == InitShells /\ [][NextLoop]_vars

\* What the actor of shell id is about to receive from its command channel
\* ends the loop: a Close command, or None from a closed, empty channel.
Closing(id) ==
    IF cmd_q[id] # << >> THEN Head(cmd_q[id]).type = "Close" ELSE ~Senders(id)

\* C31: an actor leaves its loop only when its channel ends (nothing but
\* Disconnected is emitted), when an exit status arrives (the "Connection
\* closed" notice is emitted first), or when it receives Close or finds its
\* command channel closed, and then it has closed the remote channel; a
\* step that applies SendInput or Resize, or delivers Data, leaves it in
\* its loop.
C31_LoopEndsOnlyOnExitEvents ==
    [][\A id \in { x \in actors : \/ x \notin actors'
                                   \/ cmd_q'[x] # cmd_q[x]
                                   \/ delivered'[x] # delivered[x] } :
        LET gone == ConnectionStateEvent(ServerIdOf(id), id, "Disconnected")
            notice == TerminalOutput(id, "Connection closed", "exit")
            recv == ActorRecv(id, TRUE)
        IN  /\ id \notin actors' =>
                 \/ /\ recv /\ Closing(id)
                    /\ shell_events'[id] = Append(shell_events[id], gone)
                 \/ /\ ActorExit(id, "exit")
                    /\ shell_events'[id] = shell_events[id] \o << notice, gone >>
                 \/ /\ ActorExit(id, "eof")
                    /\ shell_events'[id] = Append(shell_events[id], gone)
            /\ recv /\ Closing(id) => id \notin actors' /\ id \in channel_closed'
            /\ recv /\ ~Closing(id) => id \in actors'
            /\ ActorExit(id, "exit") \/ ActorExit(id, "eof") => id \notin actors'
            /\ (\E data \in DataInputs : ActorData(id, data)) => id \in actors'
      ]_vars

\* A shell whose actor has left its loop on Close or on a closed command
\* channel, after remote output was delivered to it.
C31_Witness ==
    \E id \in channel_closed :
        /\ id \notin actors
        /\ \E i \in 1..Len(shell_events[id]) :
              /\ shell_events[id][i].event = "terminal-output"
              /\ shell_events[id][i].arm = "data"
        /\ IsState(shell_events[id][Len(shell_events[id])], id, "Disconnected")

\* C32: when the channel write of a SendInput fails, the actor emits one
\* terminal-output event with the failure notice for its shell id; when the
\* window-change of a Resize fails, it emits nothing; either way the command
\* is consumed, the remote channel is not closed, and the actor is still in
\* its loop with the rest of its queue.
C32_FailedWriteKeepsActor ==
    [][\A id \in { x \in actors : x \in actors' => cmd_q'[x] # cmd_q[x] } :
        (ActorRecv(id, FALSE) /\ ~Closing(id)) =>
            LET cmd == Head(cmd_q[id])
                notice == TerminalOutput(id, "Failed to send input", "input")
            IN  /\ id \in actors'
                /\ id \notin channel_closed'
                /\ cmd_q'[id] = Tail(cmd_q[id])
                /\ applied'[id] = Append(applied[id], cmd)
                /\ cmd.type = "SendInput" =>
                      shell_events'[id] = Append(shell_events[id], notice)
                /\ cmd.type = "Resize" => shell_events'[id] = shell_events[id]
      ]_vars

\* An actor still in its loop that has reported two failed writes, the
\* second for a command it took after the first, and has applied a Resize.
C32_Witness ==
    \E id \in actors :
        /\ Cardinality({ i \in 1..Len(shell_events[id]) :
                           /\ shell_events[id][i].event = "terminal-output"
                           /\ shell_events[id][i].arm = "input" }) = 2
        /\ \E i \in 1..Len(applied[id]) : applied[id][i].type = "Resize"

\* C33: a check_server_key that resumes from its prompt while the entry
\* under its host:port belongs to another connection attempt that is still
\* waiting leaves that entry in the table and that attempt waiting.
C33_ResumeRemovesOnlyOwnEntry ==
    [][\A t \in Tasks :
        (/\ ResumeFromPrompt(t)
         /\ IdOf(t) \in DOMAIN pending_host_keys
         /\ pending_host_keys[IdOf(t)].sender # t
         /\ Suspended(pending_host_keys[IdOf(t)].sender))
        => /\ IdOf(t) \in DOMAIN pending_host_keys'
           /\ pending_host_keys'[IdOf(t)] = pending_host_keys[IdOf(t)]
           /\ Suspended(pending_host_keys[IdOf(t)].sender)'
      ]_vars

\* ------------------------------------------------------------- mutexes
\* The three mutexes of AppState.
Mutexes == {"sessions", "shells", "pending_host_keys"}

\* What a command does to the mutexes, in program order: m.lock().await, the
\* drop of a guard at the end of its scope, and an await on something other
\* than a mutex (the user's decision, the network, a command queue).
Lock(m) == [op |-> "lock", mutex |-> m]

Unlock(m) == [op |-> "unlock", mutex |-> m]

Await == [op |-> "await", mutex |-> ""]

\* connect: check_server_key inserts its pending entry in a scoped block,
\* waits for the decision, and takes the pending mutex again to remove the
\* entry until it returns; connect_ssh authenticates; connect inserts the
\* session in a scoped block, takes the sessions mutex again and keeps it
\* across open_pty_shell and the scoped insert into shells, until it returns.
ConnectLocks ==
    << Lock("pending_host_keys"), Unlock("pending_host_keys"), Await,
       Lock("pending_host_keys"), Unlock("pending_host_keys"), Await,
       Lock("sessions"), Unlock("sessions"),
       Lock("sessions"), Await, Lock("shells"), Unlock("shells"),
       Unlock("sessions") >>

\* disconnect: the session is removed, the shell ids are collected and a
\* shell is removed, each in a scoped block of its own; Close is sent and
\* the session is disconnected with no guard alive.
DisconnectLocksNested ==
    << Lock("shells"), Lock("sessions"), Unlock("sessions"), Unlock("shells"),
       Lock("shells"), Unlock("shells"), Await, Await >>

DisconnectLocks ==
    << Lock("sessions"), Unlock("sessions"), Lock("shells"), Unlock("shells"),
       Lock("shells"), Unlock("shells"), Await, Await >>

\* send_input and resize: cmd_tx is cloned in a scoped block, then sent.
SendLocks == << Lock("shells"), Unlock("shells"), Await >>

\* trust_host_key and reject_host_key: the entry is removed in a scoped block.
DecisionLocks == << Lock("pending_host_keys"), Unlock("pending_host_keys") >>

Commands ==
    {"connect", "disconnect", "send_input", "resize", "trust_host_key",
     "reject_host_key"}

LocksOf(command) ==
    CASE command = "connect" -> ConnectLocks
      [] command = "disconnect" -> DisconnectLocks
      [] command \in {"send_input", "resize"} -> SendLocks
      [] command \in {"trust_host_key", "reject_host_key"} -> DecisionLocks

Holder(m) ==
    CASE m = "sessions" -> sessionsLock
      [] m = "shells" -> shellsLock
      [] m = "pending_host_keys" -> pendingLock

\* The mutexes get the holders h gives them.
SetHolders(h) ==
    /\ sessionsLock' = h["sessions"]
    /\ shellsLock' = h["shells"]
    /\ pendingLock' = h["pending_host_keys"]

Holders == [m \in Mutexes |-> Holder(m)]

\* The operation a running command is at.
NextOp(p) == LocksOf(lockCalls[p].command)[lockCalls[p].at]

\* A command past its operation: at the next one, or returned.
Advance(p) ==
    IF lockCalls[p].at = Len(LocksOf(lockCalls[p].command))
    THEN [lockCalls EXCEPT ![p] = NoLockCall]
    ELSE [lockCalls EXCEPT ![p].at = @ + 1]

\* The frontend invokes a command.
LockCall(p, command) ==
    /\ lockCalls[p] = NoLockCall
    /\ lockCalls' = [lockCalls EXCEPT ![p] = [command |-> command, at |-> 1]]
    /\ UNCHANGED << serverVars, shellVars, appVars, shellsLock, pendingLock >>

\* A running command does its next operation: lock().await resumes only
\* when the mutex is free, a guard going out of scope frees its mutex, and
\* any other await resumes on its own.
LockStep(p) ==
    /\ lockCalls[p] # NoLockCall
    /\ LET o == NextOp(p)
       IN  CASE o.op = "lock" ->
                   /\ Holder(o.mutex) = 0
                   /\ SetHolders([Holders EXCEPT ![o.mutex] = p])
             [] o.op = "unlock" ->
                   SetHolders([Holders EXCEPT ![o.mutex] = 0])
             [] o.op = "await" ->
                   SetHolders(Holders)
    /\ lockCalls' = Advance(p)
    /\ UNCHANGED << serverVars, shellVars, tasks, connects, known_hosts, pending_host_keys,
                    trustCalls, ret, okTrusted, sessions, shells, actors, discCalls >>

\* An await other than a lock returns an error that the command passes on
\* with `?`: every guard in scope is dropped as the command returns.
LockReturn(p) ==
    /\ lockCalls[p] # NoLockCall
    /\ NextOp(p).op = "await"
    /\ SetHolders([m \in Mutexes |-> IF Holder(m) = p THEN 0 ELSE Holder(m)])
    /\ lockCalls' = [lockCalls EXCEPT ![p] = NoLockCall]
    /\ UNCHANGED << serverVars, shellVars, tasks, connects, known_hosts, pending_host_keys,
                    trustCalls, ret, okTrusted, sessions, shells, actors, discCalls >>

NextLocks ==
    \/ \E p \in LockCalls, command \in Commands : LockCall(p, command)
    \/ \E p \in LockCalls : LockStep(p)
    \/ \E p \in LockCalls : LockReturn(p)

SpecLocks == Init /\ [][NextLocks]_vars

\* The mutex a running command is waiting for: the one its lock().await
\* asks for while another holder has it; "" when it waits for none.
WaitsFor(p) ==
    IF /\ lockCalls[p] # NoLockCall
       /\ NextOp(p).op = "lock"
       /\ Holder(NextOp(p).mutex) # 0
    THEN NextOp(p).mutex
    ELSE ""

\* C35: there is no set of running commands in which every command waits
\* for a mutex that is held by a command of the set.
C35_NoMutexDeadlock ==
    ~ \E D \in SUBSET LockCalls :
        /\ D # {}
        /\ \A p \in D : WaitsFor(p) # "" /\ Holder(WaitsFor(p)) \in D

\* A connect call holds the sessions mutex and waits for the shells mutex,
\* which another command holds, while a third command waits for sessions.
C35_Witness ==
    \E p, q, r \in LockCalls :
        /\ sessionsLock = p /\ lockCalls[p].command = "connect"
        /\ WaitsFor(p) = "shells" /\ shellsLock = q
        /\ WaitsFor(r) = "sessions"

====
